---- MODULE Spec2Model ----
(***************************************************************************)
(* Packet-hunt scheduler of the viewer (viewer/viewer.js).                 *)
(*                                                                         *)
(* State: the hunt documents held by Elasticsearch, the two process-local  *)
(* scheduler flags, the Db.searchHunt calls in flight, the scans (one per  *)
(* processHuntJob invocation, each with its own in-memory hunt object and  *)
(* its async.forEachLimit workers) and the HTTP request in flight.         *)
(* A Db write takes effect when it is issued; its callback is a later      *)
(* step.  A Db read takes effect when its callback runs.                   *)
(***************************************************************************)
EXTENDS Integers, Sequences, FiniteSets, TLC

\* ------------------------------------------------------------------ bounds
MaxHunts == 2
NumSessions == 4
SoloHunts == 1
QueueSessions == 1
ResumeSessions == 2
ResumeRequests == 1
MaxScans == 2
MaxRequests == 2
MaxFaults == 1
MaxErrors == 3
CapWindow == 2
CapTail == 6
RouteSessions == 3
MaxCronQueries == 2
MaxCronPasses == 2
SoloQueries == 1
MaxClockSteps == 1
MaxFiles == 12
MaxLocks == 1
MaxExpiryPasses == 2
MaxPackets == 3
MaxPcapFiles == 2
MaxScrubs == 2
MaxLookupReqs == 3
MaxWiseQueries == 3

\* ------------------------------------------------------- program constants
HuntConcurrency == 3
PageSize == 100
FailedSessionsCap == 10000
CronTimeout == 70

Hunts == 1..MaxHunts
Sessions == 1..NumSessions
Scans == 1..MaxScans

\* A session of the fixture: session s has lastPacket = s, so the scroll's
\* sort lastPacket:asc is the order of the ids; every session lies inside
\* [query.startTime, query.stopTime).
lastPacket(s) == s
StartTime == 1

\* The fixture's sessions: which node holds the session's PCAP (this one, a
\* peer, or none: a session without files), and whether its packets match
\* the hunt's search.
SessionKind(s) ==
  CASE s % 4 = 1 -> "remote" [] s % 4 = 2 -> "local" [] s % 4 = 3 -> "nofile" [] OTHER -> "remote"
Matches(s) == s % 4 \in {1, 2}

VARIABLES
  store,                        \* hunts index: id -> document
  runningHuntJob,               \* internals.runningHuntJob
  proccessHuntJobsInitialized,  \* internals.proccessHuntJobsInitialized
  huntSearches,                 \* Db.searchHunt calls of processHuntJobs in flight
  scans,                        \* scan slot -> processHuntJob invocation
  req,                          \* the HTTP request in flight
  fixture,                      \* the deployment: hunts that may be created, sessions indexed
  budget,                       \* requests and injected faults still allowed
  searchedBy,                   \* hunt -> sessions whose packet search returned
  matchedBy,                    \* hunt -> sessions whose packet search matched
  taggedBy,                     \* hunt -> sessions with the hunt id attached
  userPaused,                   \* hunts paused through PUT /hunt/:id/pause while running
  routing,                      \* sessions being dispatched to their node
  front,                        \* the request passing the authentication chain and its route
  listing,                      \* the response of GET /hunt/list being sent
  cron,                         \* the queries index, the clock and the pass of processCronQueries
  expiry,                       \* the files index, the PCAP files and the passes of expireDevice
  scrub,                        \* the session, its PCAP packets and the run of pcapScrub
  shortcuts,                    \* the lookups index, lookupMutex and the POST /lookups requests
  wise                          \* the WISE cache, srcInProgress of one source and type, and the queries

huntVars == <<store, runningHuntJob, proccessHuntJobsInitialized, huntSearches,
              scans, req, fixture, budget, searchedBy, matchedBy, taggedBy, userPaused>>
sideVars == <<routing, front, listing, cron, expiry, scrub, shortcuts, wise>>
besideRouting == <<huntVars, front, listing, cron, expiry, scrub, shortcuts, wise>>
besideFront == <<huntVars, routing, listing, cron, expiry, scrub, shortcuts, wise>>
besideListing == <<huntVars, routing, front, cron, expiry, scrub, shortcuts, wise>>
besideCron == <<huntVars, routing, front, listing, expiry, scrub, shortcuts, wise>>
besideExpiry == <<huntVars, routing, front, listing, cron, scrub, shortcuts, wise>>
besideScrub == <<huntVars, routing, front, listing, cron, expiry, shortcuts, wise>>
besideShortcuts == <<huntVars, routing, front, listing, cron, expiry, scrub, wise>>
besideWise == <<huntVars, routing, front, listing, cron, expiry, scrub, shortcuts>>
vars == <<huntVars, sideVars>>

\* ------------------------------------------------------------- documents
NoHunt == [status |-> "absent", searchedSessions |-> 0, totalSessions |-> 0,
           matchedSessions |-> 0, lastPacketTime |-> 0, failedSessionIds |-> <<>>,
           errors |-> 0, users |-> {}, unrunnable |-> FALSE, compiles |-> "ok",
           userId |-> "", search |-> "", searchType |-> "", query |-> "none"]

\* The document POST /hunt stores: the search, its type, the sessions query
\* and the creator.
NewHunt(total) == [NoHunt EXCEPT !.status = "queued", !.totalSessions = total,
                                 !.userId = "alice", !.search = "pattern",
                                 !.searchType = "regex", !.query = "sessions"]

IdleScan == [pc |-> "idle", hid |-> 0, hunt |-> NoHunt, ss |-> 0, due |-> FALSE,
             from |-> 0, queue |-> <<>>, rest |-> <<>>, pageLen |-> 0, workers |-> {},
             hung |-> 0, failedPass |-> FALSE, changes |-> FALSE, pausing |-> 0,
             pass0 |-> <<>>, okIds |-> {}, err0 |-> 0, failedRpc |-> {}]

NoReq == [kind |-> "none", hid |-> 0, stage |-> "none", doc |-> NoHunt]

Range(f) == {f[i] : i \in DOMAIN f}

Min(a, b) == IF a < b THEN a ELSE b

\* The whole mutable state as one record, so that a callback that calls
\* other functions synchronously is a composition of operators.
World == [store |-> store, flag |-> runningHuntJob,
          init |-> proccessHuntJobsInitialized, searches |-> huntSearches,
          scans |-> scans, searchedBy |-> searchedBy, matchedBy |-> matchedBy,
          taggedBy |-> taggedBy]

Commit(w) ==
  /\ store' = w.store
  /\ runningHuntJob' = w.flag
  /\ proccessHuntJobsInitialized' = w.init
  /\ huntSearches' = w.searches
  /\ searchedBy' = w.searchedBy
  /\ matchedBy' = w.matchedBy
  /\ taggedBy' = w.taggedBy
  /\ scans' = [k \in Scans |->
       LET sc == w.scans[k] IN
       IF /\ sc.pausing = 0
          /\ \/ sc.pc = "ended" /\ sc.workers = {}
             \/ sc.pc \in {"page", "failed"} /\ sc.workers = {} /\ sc.hung > 0
       THEN IdleScan ELSE sc]

\* Db.setHunt(huntId, hunt, cb): the document is replaced as a whole.
SetHunt(w, h, hunt) == [w EXCEPT !.store[h] = hunt]

\* processHuntJobs, lines 1836-1845: the synchronous part.
ProcessHuntJobs(w) ==
  IF w.flag # "undefined" THEN w
  ELSE [w EXCEPT !.flag = "true", !.searches = @ + 1]

\* ----------------------------------------------------------- hunt engine
\* pauseHuntJobWithError: the hunt object is marked paused, the error is
\* appended and (no notifier) continueProcess writes the document at once;
\* the write's callback is the later step PauseDone.
PauseHuntJobWithError(w, k) ==
  LET sc == w.scans[k]
      hunt == [sc.hunt EXCEPT !.status = "paused", !.errors = Min(@ + 1, MaxErrors)]
  IN [SetHunt(w, sc.hid, hunt) EXCEPT !.scans[k].hunt = hunt,
                                      !.scans[k].pausing = @ + 1]

\* pauseHuntJobWithError with error.unrunnable: hunt.unrunnable = true.
PauseUnrunnable(w, k) ==
  PauseHuntJobWithError([w EXCEPT !.scans[k].hunt.unrunnable = TRUE], k)

\* buildHuntOptions: a regex that does not compile pauses the hunt; the
\* options are returned all the same, without options.regex.
BuildHuntOptions(w, k) ==
  IF w.scans[k].hunt.compiles = "badRegex" THEN PauseUnrunnable(w, k) ELSE w

\* continueProcess of runHuntJob: Db.setHunt, callback pending.
ContinueProcess(w, k) ==
  [SetHunt(w, w.scans[k].hid, w.scans[k].hunt) EXCEPT !.scans[k].pc = "setHunt"]

\* continueProcess of huntFailedSessions: the same write.
FailedContinueProcess(w, k) ==
  [SetHunt(w, w.scans[k].hid, w.scans[k].hunt) EXCEPT !.scans[k].pc = "setHunt"]

\* The final callback of the page's forEachLimit in runHuntJob.
PageDone(w, k, err) ==
  LET sc == w.scans[k] IN
  IF err \in {"paused", "undefined"}
  THEN [w EXCEPT !.flag = "undefined", !.scans[k].pc = "ended"]
  ELSE IF sc.pageLen # 0
  THEN [w EXCEPT !.scans[k].pc = "scroll"]
  ELSE LET hunt == [sc.hunt EXCEPT !.searchedSessions = sc.hunt.totalSessions] IN
       IF hunt.failedSessionIds # <<>>
       THEN ContinueProcess([w EXCEPT !.init = FALSE, !.scans[k].hunt = hunt], k)
       ELSE ContinueProcess(
              [w EXCEPT !.scans[k].hunt = [hunt EXCEPT !.status = "finished"]], k)

\* A final callback that goes on to the next pass whether or not a session
\* was searched in this one.
FailedPassDoneAlways(w, k) ==
  LET sc == w.scans[k] IN
  IF sc.hunt.failedSessionIds = <<>>
  THEN FailedContinueProcess([w EXCEPT !.scans[k].hunt.status = "finished"], k)
  ELSE FailedContinueProcess([w EXCEPT !.init = FALSE], k)

\* The final callback of the forEachLimit in huntFailedSessions; err is
\* not looked at.
FailedPassDone(w, k) ==
  LET sc == w.scans[k] IN
  IF sc.hunt.failedSessionIds = <<>>
  THEN FailedContinueProcess([w EXCEPT !.scans[k].hunt.status = "finished"], k)
  ELSE IF sc.changes
  THEN FailedContinueProcess([w EXCEPT !.init = FALSE], k)
  ELSE [PauseHuntJobWithError(w, k) EXCEPT !.scans[k].pc = "ended"]

ForEachDone(w, k, err) ==
  IF w.scans[k].pc = "page" THEN PageDone(w, k, err) ELSE FailedPassDone(w, k)

Running(sc) == Cardinality(sc.workers) + sc.hung

\* async.forEachLimit: start iteratees while fewer than the limit run.  The
\* iteratee's synchronous prefix runs here: searchedSessions++, and for a
\* session without files updateHuntStats, which calls back at once unless a
\* checkpoint is due.
RECURSIVE Replenish(_, _)
Replenish(w, k) ==
  LET sc == w.scans[k] IN
  IF sc.queue = <<>> \/ Running(sc) >= HuntConcurrency THEN w
  ELSE LET s == Head(sc.queue) IN
    IF sc.failedPass
    THEN Replenish([w EXCEPT !.scans[k].queue = Tail(@),
                             !.scans[k].workers = @ \cup {[sess |-> s, stage |-> "req", cap |-> 0]}], k)
    ELSE IF SessionKind(s) = "nofile"
    THEN Replenish([w EXCEPT !.scans[k].queue = Tail(@),
                             !.scans[k].ss = @ + 1,
                             !.scans[k].workers =
                                IF sc.due THEN @ \cup {[sess |-> s, stage |-> "ckpt", cap |-> sc.ss + 1]}
                                ELSE @,
                             !.searchedBy[sc.hid] = @ \cup {s}], k)
    ELSE Replenish([w EXCEPT !.scans[k].queue = Tail(@),
                             !.scans[k].ss = @ + 1,
                             !.scans[k].workers = @ \cup {[sess |-> s, stage |-> "req", cap |-> 0]}], k)

\* After a synchronous run of iteratees: the final callback if none is left.
Drain(w, k) ==
  LET w1 == Replenish(w, k) IN
  IF Running(w1.scans[k]) = 0 /\ w1.scans[k].queue = <<>>
  THEN ForEachDone(w1, k, "null") ELSE w1

\* cb(err) of an iteratee whose worker record has been removed already.
WorkerCb(w, k, err) ==
  IF w.scans[k].pc \notin {"page", "failed"} THEN w
  ELSE IF err # "null" THEN ForEachDone(w, k, err)
  ELSE Drain(w, k)

\* updateHuntStats, lines 1468-1474 and 1499-1501: Db.get is issued when
\* two seconds have passed since hunt.lastUpdated.
UpdateHuntStats(w, k, s, searchedSessions) ==
  IF w.scans[k].due
  THEN [w EXCEPT !.scans[k].workers =
               @ \cup {[sess |-> s, stage |-> "ckpt", cap |-> searchedSessions]}]
  ELSE WorkerCb(w, k, "null")

\* updateHuntStats, lines 1475-1498: the Db.get callback.
CheckpointCb(w, k, wk, due) ==
  LET sc == w.scans[k]
      doc == w.store[sc.hid]
  IN IF doc.status = "absent" THEN WorkerCb(w, k, "undefined")
     ELSE LET hunt == [sc.hunt EXCEPT
                         !.status = doc.status,
                         !.searchedSessions = IF wk.cap # 0 THEN wk.cap ELSE @,
                         !.lastPacketTime = lastPacket(wk.sess)]
              w1 == [SetHunt(w, sc.hid, hunt) EXCEPT !.scans[k].hunt = hunt,
                                                     !.scans[k].due = due]
          IN WorkerCb(w1, k, IF hunt.status = "paused" THEN "paused" ELSE "null")

\* continueHuntSkipSession.
ContinueHuntSkipSession(w, k, s, searchedSessions) ==
  LET failed == w.scans[k].hunt.failedSessionIds IN
  IF failed = <<>>
  THEN UpdateHuntStats([w EXCEPT !.scans[k].hunt.failedSessionIds = <<s>>],
                       k, s, searchedSessions)
  ELSE IF Len(failed) > FailedSessionsCap
  THEN [PauseHuntJobWithError(w, k) EXCEPT !.scans[k].hung = @ + 1]
  ELSE IF s \notin Range(failed)
  THEN UpdateHuntStats([w EXCEPT !.scans[k].hunt.failedSessionIds = Append(@, s)],
                       k, s, searchedSessions)
  ELSE UpdateHuntStats(w, k, s, searchedSessions)

\* updateSessionWithHunt / Db.addHuntToSession.
UpdateSessionWithHunt(w, h, s) == [w EXCEPT !.taggedBy[h] = @ \cup {s}]

\* sessionHunt has returned for session s: the outcome of the packet search.
Searched(w, h, s, matched) ==
  [w EXCEPT !.searchedBy[h] = @ \cup {s},
            !.matchedBy[h] = IF matched THEN @ \cup {s} ELSE @]

\* GET /:nodeName/hunt/:huntId/remote/:sessionId on the peer: the peer
\* searches the session and tags it on a match.
RemoteHuntUntagged(w, h, s, matched) == Searched(w, h, s, matched)

RemoteHunt(w, h, s, matched) ==
  IF w.store[h].compiles = "badRegex"
  THEN Searched([w EXCEPT !.store[h].status = "paused",
                          !.store[h].unrunnable = TRUE,
                          !.store[h].errors = Min(@ + 1, MaxErrors)], h, s, FALSE)
  ELSE IF matched THEN UpdateSessionWithHunt(Searched(w, h, s, TRUE), h, s)
  ELSE Searched(w, h, s, FALSE)

\* runHuntJob, lines 1674-1703: the callback of sessionHunt (local) or of
\* ViewerUtils.makeRequest (remote) for one hit.
HitCb(w, k, s, outcome) ==
  LET sc == w.scans[k]
      h == sc.hid
      n == sc.ss
      matched == outcome = "matched"
  IN CASE outcome = "transportError" ->
            ContinueHuntSkipSession([w EXCEPT !.scans[k].failedRpc = @ \cup {s}], k, s, n)
       [] outcome = "jsonError" ->
            [PauseHuntJobWithError(w, k) EXCEPT !.scans[k].hung = @ + 1,
                                                !.scans[k].failedRpc = @ \cup {s}]
       [] OTHER ->
            IF SessionKind(s) = "local"
            THEN LET w1 == Searched(w, h, s, matched) IN
                 IF matched
                 THEN UpdateHuntStats(
                        UpdateSessionWithHunt(
                          [w1 EXCEPT !.scans[k].hunt.matchedSessions = @ + 1], h, s),
                        k, s, n)
                 ELSE UpdateHuntStats(w1, k, s, n)
            ELSE LET w1 == RemoteHunt(w, h, s, matched) IN
                 UpdateHuntStats(
                   IF matched THEN [w1 EXCEPT !.scans[k].hunt.matchedSessions = @ + 1]
                   ELSE w1,
                   k, s, n)

RemoveAt(seq, i) == SubSeq(seq, 1, i - 1) \o SubSeq(seq, i + 1, Len(seq))

IndexOf(seq, x) ==
  IF x \in Range(seq) THEN CHOOSE i \in 1..Len(seq) : seq[i] = x /\ \A j \in 1..(i - 1) : seq[j] # x
  ELSE 0

SpliceLast(seq, x) == IF seq = <<>> THEN seq ELSE RemoveAt(seq, Len(seq))

\* Array.prototype.splice(indexOf(x), 1): index -1 removes the last element.
Splice(seq, x) ==
  IF seq = <<>> THEN seq
  ELSE IF IndexOf(seq, x) = 0 THEN RemoveAt(seq, Len(seq))
  ELSE RemoveAt(seq, IndexOf(seq, x))

\* huntFailedSessions, lines 1571-1597: Db.getSession and the peer request
\* of one failed session have returned.
FailedHitCb(w, k, s, outcome) ==
  LET sc == w.scans[k] IN
  IF outcome \in {"transportError", "jsonError"}
  THEN ContinueHuntSkipSession([w EXCEPT !.scans[k].failedRpc = @ \cup {s}], k, s, 0)
  ELSE LET w1 == [RemoteHunt(w, sc.hid, s, outcome = "matched") EXCEPT
                    !.scans[k].hunt.failedSessionIds = Splice(@, s),
                    !.scans[k].changes = TRUE,
                    !.scans[k].okIds = @ \cup {s},
                    !.scans[k].hunt.matchedSessions =
                       IF outcome = "matched" THEN @ + 1 ELSE @]
       IN UpdateHuntStats(w1, k, s, 0)


AllSessions == [i \in 1..fixture.sessions |-> i]

\* The session query of processHuntJob, lines 1805-1813: lastPacket >=
\* (hunt.lastPacketTime || query.startTime), sorted by lastPacket.
QueryFrom(hunt) == IF hunt.lastPacketTime # 0 THEN hunt.lastPacketTime ELSE StartTime

IsHit(hunt, s) == lastPacket(s) >= QueryFrom(hunt)

QueryHits(hunt) ==
  LET n == Cardinality({s \in 1..fixture.sessions : IsHit(hunt, s)})
  IN SubSeq(AllSessions, fixture.sessions - n + 1, fixture.sessions)

\* getMoreUntilDone, lines 1653-1663: one page of hits is handed to
\* forEachLimit.
RunPage(w, k, hits) ==
  LET n == Min(PageSize, Len(hits)) IN
  Drain([w EXCEPT !.scans[k].pc = "page",
                  !.scans[k].queue = SubSeq(hits, 1, n),
                  !.scans[k].rest = SubSeq(hits, n + 1, Len(hits)),
                  !.scans[k].pageLen = n], k)

\* huntFailedSessions, lines 1560-1570.
HuntFailedSessions(w, k) ==
  Drain([w EXCEPT !.scans[k].pc = "failed",
                  !.scans[k].failedPass = TRUE,
                  !.scans[k].changes = FALSE,
                  !.scans[k].pass0 = w.scans[k].hunt.failedSessionIds,
                  !.scans[k].okIds = {},
                  !.scans[k].err0 = w.scans[k].hunt.errors,
                  !.scans[k].queue = w.scans[k].hunt.failedSessionIds], k)

\* runHuntJob, lines 1637-1647.
RunHuntJob(w, k) ==
  LET w1 == BuildHuntOptions(w, k)
      hunt == w1.scans[k].hunt
  IN IF hunt.searchedSessions = hunt.totalSessions /\ hunt.failedSessionIds # <<>>
     THEN HuntFailedSessions(w1, k)
     ELSE [w1 EXCEPT !.scans[k].pc = "search"]

\* processHuntJob, lines 1751-1763: Db.setHunt and the user lookup are issued.
ProcessHuntJob(w, k, h, hunt) ==
  [SetHunt(w, h, hunt) EXCEPT
     !.scans[k] = [IdleScan EXCEPT !.pc = "prepare", !.hid = h, !.hunt = hunt]]

FreeSlots == {k \in Scans : scans[k].pc = "idle"}
FreeSlot == CHOOSE k \in FreeSlots : \A j \in FreeSlots : k <= j

\* processHuntJobs, lines 1846-1874: the hunt list has arrived.
FirstJob(w) ==
  LET c == {h \in Hunts : w.store[h].status \in {"running", "queued"}}
  IN IF c = {} THEN 0 ELSE CHOOSE h \in c : \A j \in c : h <= j

HuntList(w, k) ==
  LET h == FirstJob(w) IN
  IF h = 0 THEN [w EXCEPT !.init = TRUE, !.flag = "undefined"]
  ELSE IF w.store[h].status = "running"
  THEN IF ~w.init
       THEN ProcessHuntJob([w EXCEPT !.flag = "hunt", !.init = TRUE], k, h, w.store[h])
       ELSE [w EXCEPT !.flag = "hunt"]
  ELSE ProcessHuntJob([w EXCEPT !.flag = "hunt"], k, h,
                      [w.store[h] EXCEPT !.status = "running"])

StartsJob(w) ==
  LET h == FirstJob(w) IN
  h # 0 /\ (w.store[h].status = "queued" \/ ~w.init)

\* ---------------------------------------------------------------- actions
Rest == <<req, fixture, budget, userPaused, sideVars>>

\* setInterval(processHuntJobs, 10000)
Tick ==
  /\ runningHuntJob = "undefined"
  /\ Commit(ProcessHuntJobs(World))
  /\ UNCHANGED Rest

HuntListDone ==
  /\ huntSearches > 0
  /\ LET w == [World EXCEPT !.searches = @ - 1] IN
     /\ StartsJob(w) => FreeSlots # {}
     /\ Commit(HuntList(w, IF FreeSlots # {} THEN FreeSlot ELSE 1))
  /\ UNCHANGED Rest

\* processHuntJobs, lines 1875-1878: Db.searchHunt failed.
HuntListFail ==
  /\ huntSearches > 0
  /\ budget.faults > 0
  /\ budget' = [budget EXCEPT !.faults = @ - 1]
  /\ Commit([World EXCEPT !.searches = @ - 1])
  /\ UNCHANGED <<req, fixture, userPaused>>
  /\ UNCHANGED sideVars

\* processHuntJob, lines 1763-1826: user, lookups and query are ready.
Prepared(k) ==
  /\ scans[k].pc = "prepare"
  /\ IF scans[k].hunt.compiles = "badExpression"
     THEN Commit([PauseUnrunnable(World, k) EXCEPT !.scans[k].pc = "ended"])
     ELSE Commit(RunHuntJob(World, k))
  /\ UNCHANGED Rest

\* processHuntJob, lines 1764-1775: the hunt's user is missing or disabled.
PrepareFail(k) ==
  /\ scans[k].pc = "prepare"
  /\ budget.faults > 0
  /\ budget' = [budget EXCEPT !.faults = @ - 1]
  /\ Commit([PauseHuntJobWithError(World, k) EXCEPT !.scans[k].pc = "ended"])
  /\ UNCHANGED <<req, fixture, userPaused>>
  /\ UNCHANGED sideVars

\* getMoreUntilDone on the answer of Db.search: first page.
SessionSearchDone(k) ==
  /\ scans[k].pc = "search"
  /\ LET hunt == scans[k].hunt
         hits == QueryHits(hunt)
         w == [World EXCEPT !.scans[k].ss = hunt.searchedSessions,
                            !.scans[k].from = QueryFrom(hunt),
                            !.scans[k].hunt.totalSessions = Len(hits) + hunt.searchedSessions]
     IN Commit(RunPage(w, k, hits))
  /\ UNCHANGED Rest

\* getMoreUntilDone on the answer of Db.scroll: next page.
ScrollDone(k) ==
  /\ scans[k].pc = "scroll"
  /\ Commit(RunPage(World, k, scans[k].rest))
  /\ UNCHANGED Rest

\* getMoreUntilDone, lines 1648-1651: Db.search or Db.scroll failed.
SessionSearchFail(k) ==
  /\ scans[k].pc \in {"search", "scroll"}
  /\ budget.faults > 0
  /\ budget' = [budget EXCEPT !.faults = @ - 1]
  /\ Commit([PauseHuntJobWithError(World, k) EXCEPT !.scans[k].pc = "ended"])
  /\ UNCHANGED <<req, fixture, userPaused>>
  /\ UNCHANGED sideVars

SearchResult(hunt, s) ==
  IF hunt.compiles = "ok" /\ Matches(s) THEN "matched" ELSE "unmatched"

\* The packet search of one hit has answered.
HitDone(k) ==
  /\ \E wk \in scans[k].workers :
       /\ wk.stage = "req"
       /\ LET w == [World EXCEPT !.scans[k].workers = @ \ {wk}] IN
          Commit(IF scans[k].failedPass THEN FailedHitCb(w, k, wk.sess, SearchResult(scans[k].hunt, wk.sess))
                 ELSE HitCb(w, k, wk.sess, SearchResult(scans[k].hunt, wk.sess)))
  /\ UNCHANGED Rest

\* ViewerUtils.makeRequest failed: the session's node is unreachable.
HitTransportError(k) ==
  /\ \E wk \in scans[k].workers :
       /\ wk.stage = "req"
       /\ scans[k].failedPass \/ SessionKind(wk.sess) = "remote"
       /\ LET w == [World EXCEPT !.scans[k].workers = @ \ {wk}] IN
          Commit(IF scans[k].failedPass THEN FailedHitCb(w, k, wk.sess, "transportError")
                 ELSE HitCb(w, k, wk.sess, "transportError"))
  /\ UNCHANGED Rest

\* The peer answered {matched: false, error}.
HitJsonError(k) ==
  /\ budget.faults > 0
  /\ \E wk \in scans[k].workers :
       /\ wk.stage = "req"
       /\ scans[k].failedPass \/ SessionKind(wk.sess) = "remote"
       /\ LET w == [World EXCEPT !.scans[k].workers = @ \ {wk}] IN
          Commit(IF scans[k].failedPass THEN FailedHitCb(w, k, wk.sess, "jsonError")
                 ELSE HitCb(w, k, wk.sess, "jsonError"))
  /\ budget' = [budget EXCEPT !.faults = @ - 1]
  /\ UNCHANGED <<req, fixture, userPaused>>
  /\ UNCHANGED sideVars

\* The Db.get of a checkpoint has answered.
CheckpointDone(k) ==
  /\ \E wk \in scans[k].workers : \E due \in BOOLEAN :
       /\ wk.stage = "ckpt"
       /\ Commit(CheckpointCb([World EXCEPT !.scans[k].workers = @ \ {wk}], k, wk, due))
  /\ UNCHANGED Rest

\* Two seconds have passed since hunt.lastUpdated.
TimePasses(k) ==
  /\ scans[k].pc \in {"prepare", "search", "page", "scroll", "failed"} \/ scans[k].workers # {}
  /\ ~scans[k].due
  /\ Commit([World EXCEPT !.scans[k].due = TRUE])
  /\ UNCHANGED Rest

\* The callback of continueProcess's Db.setHunt.
SetHuntDone(k) ==
  /\ scans[k].pc = "setHunt"
  /\ Commit([ProcessHuntJobs([World EXCEPT !.flag = "undefined"]) EXCEPT !.scans[k].pc = "ended"])
  /\ UNCHANGED Rest

\* The callback of pauseHuntJobWithError's Db.setHunt.
PauseDone(k) ==
  /\ scans[k].pausing > 0
  /\ Commit([ProcessHuntJobs([World EXCEPT !.flag = "undefined"]) EXCEPT !.scans[k].pausing = @ - 1])
  /\ UNCHANGED Rest

\* POST /hunt: Db.createHunt.
PostHunt ==
  /\ req.kind = "none"
  /\ \E h \in Hunts :
       /\ h <= fixture.hunts
       /\ store[h].status = "absent"
       /\ \A j \in 1..(h - 1) : store[j].status # "absent"
       /\ \E c \in fixture.kinds, u \in fixture.creators :
            store' = [store EXCEPT ![h] = [NewHunt(fixture.sessions) EXCEPT
                                             !.compiles = c, !.userId = u]]
       /\ req' = [NoReq EXCEPT !.kind = "post", !.hid = h, !.stage = "set"]
  /\ UNCHANGED <<runningHuntJob, proccessHuntJobsInitialized, huntSearches, scans,
                 fixture, budget, searchedBy, matchedBy, taggedBy, userPaused>>
  /\ UNCHANGED sideVars

\* Db.getHunt of PUT /hunt/:id/pause, PUT /hunt/:id/play, POST /hunt/:id/users
\* and DELETE /hunt/:id/users/:user.
GetHunt(kinds) ==
  /\ req.kind = "none"
  /\ budget.reqs > 0
  /\ \E h \in Hunts : \E kind \in kinds :
       /\ store[h].status # "absent"
       /\ req' = [kind |-> kind, hid |-> h, stage |-> "get", doc |-> store[h]]
  /\ budget' = [budget EXCEPT !.reqs = @ - 1]
  /\ UNCHANGED <<store, runningHuntJob, proccessHuntJobsInitialized, huntSearches, scans,
                 fixture, searchedBy, matchedBy, taggedBy, userPaused>>
  /\ UNCHANGED sideVars

\* updateHuntStatus, lines 1882-1904: the callback of Db.getHunt.
UpdateHuntStatus ==
  /\ req.stage = "get"
  /\ req.kind \in {"pause", "play"}
  /\ LET status == IF req.kind = "pause" THEN "paused" ELSE "queued"
         hunt == req.doc
     IN IF hunt.status = "finished" /\ status = "paused"
        THEN /\ req' = NoReq
             /\ UNCHANGED <<store, runningHuntJob, userPaused>>
        ELSE /\ runningHuntJob' = IF hunt.status = "running" THEN "undefined" ELSE runningHuntJob
             /\ store' = [store EXCEPT ![req.hid] = [hunt EXCEPT !.status = status]]
             /\ req' = [req EXCEPT !.stage = "set", !.doc = NoHunt]
             /\ userPaused' = IF status = "paused" /\ store[req.hid].status = "running"
                              THEN userPaused \cup {req.hid}
                              ELSE IF status = "queued" THEN userPaused \ {req.hid}
                              ELSE userPaused
  /\ UNCHANGED <<proccessHuntJobsInitialized, huntSearches, scans, fixture, budget,
                 searchedBy, matchedBy, taggedBy>>
  /\ UNCHANGED sideVars

\* The Db.getHunt callback of the two users handlers: the document read is
\* written back with the changed users list.
UpdateHuntUsers ==
  /\ req.stage = "get"
  /\ req.kind \in {"addUser", "delUser"}
  /\ LET hunt == req.doc IN
     IF req.kind = "delUser" /\ "u" \notin hunt.users
     THEN UNCHANGED store
     ELSE store' = [store EXCEPT ![req.hid] =
            [hunt EXCEPT !.users = IF req.kind = "addUser" THEN @ \cup {"u"} ELSE @ \ {"u"}]]
  /\ req' = NoReq
  /\ UNCHANGED <<runningHuntJob, proccessHuntJobsInitialized, huntSearches, scans,
                 fixture, budget, searchedBy, matchedBy, taggedBy, userPaused>>
  /\ UNCHANGED sideVars

\* DELETE /hunt/:id: Db.deleteHuntItem removes the document; the handler
\* touches neither the flag nor the scan.
DeleteHunt ==
  /\ budget.reqs > 0
  /\ \E h \in Hunts :
       /\ store[h].status # "absent"
       /\ store' = [store EXCEPT ![h] = NoHunt]
  /\ budget' = [budget EXCEPT !.reqs = @ - 1]
  /\ UNCHANGED <<runningHuntJob, proccessHuntJobsInitialized, huntSearches, scans, req,
                 fixture, searchedBy, matchedBy, taggedBy, userPaused>>
  /\ UNCHANGED sideVars

\* The callback of Db.createHunt or of updateHuntStatus's Db.setHunt:
\* processHuntJobs().
RequestDone ==
  /\ req.stage = "set"
  /\ req' = NoReq
  /\ Commit(ProcessHuntJobs(World))
  /\ UNCHANGED <<fixture, budget, userPaused>>
  /\ UNCHANGED sideVars

\* ------------------------------------------------------- ownership routing
RouteIds == 1..RouteSessions
NodeName == "this"
Nodes == {NodeName, "peerA", "peerB"}

\* sessionAPIs.isLocalView(node, yesCb, noCb): yesCb iff the node is this
\* process's node.
IsLocalView(node) == node = NodeName

NoRouting == [op |-> "none", todo |-> {},
              nodeOf |-> [s \in RouteIds |-> NodeName],
              hasFile |-> [s \in RouteIds |-> TRUE],
              localFor |-> [s \in RouteIds |-> 0],
              reqsFor |-> [s \in RouteIds |-> 0],
              reqNode |-> [s \in RouteIds |-> {}]]

\* The packet work of the sessions ids is done by this process.
LocalWork(r, ids) ==
  [r EXCEPT !.localFor = [s \in RouteIds |-> IF s \in ids THEN @[s] + 1 ELSE @[s]]]

\* One request about the sessions ids is sent to the viewer of node.
PeerRequest(r, node, ids) ==
  [r EXCEPT !.reqsFor = [s \in RouteIds |-> IF s \in ids THEN @[s] + 1 ELSE @[s]],
            !.reqNode = [s \in RouteIds |-> IF s \in ids THEN @[s] \cup {node} ELSE @[s]]]

\* A list of sessions reaches the hunt scan, scrubList or
\* sendSessionsListQL (which groups the list by node first).
RouteStart ==
  /\ routing.op = "none"
  /\ \E op \in {"hunt", "scrub", "send"} :
       routing' = [routing EXCEPT
                     !.op = op,
                     !.todo = IF op = "send" THEN {routing.nodeOf[s] : s \in RouteIds}
                              ELSE RouteIds]
  /\ UNCHANGED besideRouting

\* runHuntJob, lines 1663-1703: the iteratee of one hit.
HuntDispatch ==
  /\ routing.op = "hunt"
  /\ \E s \in routing.todo :
       LET r == [routing EXCEPT !.todo = @ \ {s}] IN
       routing' = IF ~routing.hasFile[s] THEN r
                  ELSE IF IsLocalView(routing.nodeOf[s]) THEN LocalWork(r, {s})
                  ELSE PeerRequest(r, routing.nodeOf[s], {s})
  /\ UNCHANGED besideRouting

ScrubAllLocally ==
  /\ routing.op = "scrub"
  /\ \E s \in routing.todo :
       routing' = LocalWork([routing EXCEPT !.todo = @ \ {s}], {s})
  /\ UNCHANGED besideRouting

\* scrubList: the iteratee of one item.
ScrubDispatch ==
  /\ routing.op = "scrub"
  /\ \E s \in routing.todo :
       LET r == [routing EXCEPT !.todo = @ \ {s}] IN
       routing' = IF IsLocalView(routing.nodeOf[s]) THEN LocalWork(r, {s})
                  ELSE PeerRequest(r, routing.nodeOf[s], {s})
  /\ UNCHANGED besideRouting

\* sendSessionsListQL: the iteratee of one node of the grouped list.
SendDispatch ==
  /\ routing.op = "send"
  /\ \E node \in routing.todo :
       LET r == [routing EXCEPT !.todo = @ \ {node}]
           ids == {s \in RouteIds : routing.nodeOf[s] = node}
       IN routing' = IF IsLocalView(node) THEN LocalWork(r, ids)
                     ELSE PeerRequest(r, node, ids)
  /\ UNCHANGED besideRouting


\* --------------------------------------------------------------- HTTP front
PeerSkewMs == 120000
CookieSkewMs == 2400000

Abs(n) == IF n < 0 THEN -n ELSE n

\* A URL is the sequence of its segments: /api/sessions/receive is
\* <<"api", "sessions", "receive">>.  The base path of the deployment
\* (Config.basePath(): "/" by default, "/arkime/" when webBasePath is set)
\* is the sequence of its segments too.
BasePaths == {<< >>, <<"arkime">>}

\* str.replace(Config.basePath(), '/'): the first occurrence of the base
\* path, wherever it is in the string, becomes a single slash.  "/arkime/"
\* occurs at a segment arkime that has a slash after it.
StripBase(base, path) ==
  IF base = << >> THEN path
  ELSE LET at == {i \in 1..(Len(path) - 1) : path[i] = base[1]} IN
       IF at = {} THEN path
       ELSE LET i == CHOOSE j \in at : \A l \in at : j <= l
            IN SubSeq(path, 1, i - 1) \o SubSeq(path, i + 1, Len(path))

Receive == <<"api", "sessions", "receive">>
ReceiveOld == <<"receiveSession">>
AddTags == <<"api", "sessions", "addtags">>
Send == <<"api", "sessions", "send">>
State == <<"state", "sessions">>
EsHealth == <<"eshealth.json">>
Routed == {Receive, ReceiveOld, AddTags, Send, State, EsHealth}

\* The URLs of the requests and the paths of the peer tokens.
Urls == Routed \cup {<<"arkime">> \o u : u \in {Receive, AddTags}}
               \cup {<<"api", "arkime", "sessions", "addtags">>}

\* req.url.match(/^\/receiveSession/) || req.url.match(/^\/api\/sessions\/receive/)
IsReceive(url) ==
  \/ Len(url) >= 1 /\ url[1] = "receiveSession"
  \/ Len(url) >= 3 /\ SubSeq(url, 1, 3) = Receive

\* req.url.match(/^\/(parliament|eshealth).json/)
IsPublic(url) == Len(url) >= 1 /\ url[1] \in {"parliament.json", "eshealth.json"}

\* The users index: alice and bob are enabled, mallory is disabled, nobody
\* else exists.
Found(u) == u \in {"alice", "bob", "mallory"}
Enabled(u) == u \in {"alice", "bob"}

\* now - token.date of the tokens presented, in milliseconds.
PeerAges == {0 - PeerSkewMs - 1, 0, PeerSkewMs, PeerSkewMs + 1}
CookieAges == {0, CookieSkewMs, CookieSkewMs + 1}

NoToken == [present |-> FALSE, path |-> << >>, age |-> 0, user |-> "none"]
\* Config.auth2obj of the x-moloch-auth header: {path, date, user}.
PeerTokens == [present : {TRUE}, path : Urls, age : PeerAges, user : {"alice", "mallory", "ghost"}]
\* Config.auth2obj of the x-moloch-cookie header: {date, pid, userId}.
CookieTokens == [present : {TRUE}, path : {<< >>}, age : CookieAges, user : {"alice", "bob"}]

Modes == {"passwordSecret", "regressionTests", "anonymous"}

NoFront == [pc |-> "idle", mode |-> "passwordSecret", base |-> << >>,
            url0 |-> << >>, url |-> << >>, auth |-> NoToken,
            cookie |-> FALSE, token |-> NoToken, login |-> "none",
            user |-> "none", peer |-> FALSE, status |-> 0, handler |-> "none"]

\* res.send / res.molochError / res.end: the response ends the request.
Reply(f, status) == [f EXCEPT !.pc = "done", !.status = status]
\* A handler of the route table runs and answers.
Handle(f, name) == [f EXCEPT !.pc = "done", !.status = 200, !.handler = name]

\* A request arrives; the app-wide middleware (lines 199-204) rewrites
\* req.url.  login is the user the digest or header credentials of the
\* request prove ("none": no valid credentials), or the molochRegressionUser
\* of the query.
Arrive ==
  /\ front.pc = "idle"
  /\ \E url \in Urls, auth \in PeerTokens \cup {NoToken}, cookie \in BOOLEAN,
        token \in CookieTokens \cup {NoToken}, login \in {"alice", "none"} :
       front' = [front EXCEPT !.pc = "auth", !.url0 = url,
                              !.url = StripBase(front.base, url),
                              !.auth = auth, !.cookie = cookie, !.token = token,
                              !.login = login, !.user = "none", !.peer = FALSE,
                              !.status = 0, !.handler = "none"]
  /\ UNCHANGED besideFront

\* The authentication middleware installed when passwordSecret is set.
PasswordAuth ==
  /\ front.pc = "auth" /\ front.mode = "passwordSecret"
  /\ front' =
       IF IsPublic(front.url) THEN [front EXCEPT !.pc = "route"]
       ELSE IF front.auth.present THEN
         LET path == StripBase(front.base, front.auth.path) IN
         IF path # front.url THEN Reply(front, 200)
         ELSE IF Abs(front.auth.age) > PeerSkewMs THEN Reply(front, 200)
         ELSE IF IsReceive(front.url) THEN [front EXCEPT !.pc = "route", !.peer = TRUE]
         ELSE [front EXCEPT !.pc = "lookup", !.peer = TRUE]
       ELSE IF IsReceive(front.url) THEN Reply(front, 200)
       ELSE IF front.login = "none" THEN Reply(front, 401)
       ELSE [front EXCEPT !.pc = "route", !.user = front.login]
  /\ UNCHANGED besideFront

\* The callback of Db.getUserCache(obj.user) of the S2S branch.
PeerUserLookup ==
  /\ front.pc = "lookup"
  /\ front' = IF ~Found(front.auth.user) \/ ~Enabled(front.auth.user)
              THEN Reply(front, 200)
              ELSE [front EXCEPT !.pc = "route", !.user = front.auth.user]
  /\ UNCHANGED besideFront

\* The middleware installed when regressionTests is set.
RegressionAuth ==
  /\ front.pc = "auth" /\ front.mode = "regressionTests"
  /\ front' = [front EXCEPT !.pc = "route",
                 !.user = IF front.login = "none" THEN "anonymous" ELSE front.login]
  /\ UNCHANGED besideFront

\* The middleware installed otherwise.
AnonymousAuth ==
  /\ front.pc = "auth" /\ front.mode = "anonymous"
  /\ front' = [front EXCEPT !.pc = "route", !.user = "anonymous"]
  /\ UNCHANGED besideFront

CheckCookieToken(f) ==
  /\ f.token.present
  /\ ~(Abs(f.token.age) > CookieSkewMs \/ f.token.user # f.user)

CheckHeaderToken(f) == IF f.cookie THEN CheckCookieToken(f) ELSE TRUE

\* POST /api/sessions/receive, /receiveSession: [noCacheJson].
ReceiveRoute ==
  /\ front.pc = "route" /\ front.url \in {Receive, ReceiveOld}
  /\ front' = Handle(front, "receiveSession")
  /\ UNCHANGED besideFront

\* POST /api/sessions/addtags: [noCacheJson, checkHeaderToken, logAction].
AddTagsRoute ==
  /\ front.pc = "route" /\ front.url = AddTags
  /\ front' = IF CheckHeaderToken(front) THEN Handle(front, "addTags")
              ELSE Reply(front, 500)
  /\ UNCHANGED besideFront

\* POST /api/sessions/send: no middleware.
SendRoute ==
  /\ front.pc = "route" /\ front.url = Send
  /\ front' = Handle(front, "sendSessions")
  /\ UNCHANGED besideFront

\* POST /state/:name: [noCacheJson, checkCookieToken, logAction].
StateRoute ==
  /\ front.pc = "route" /\ front.url = State
  /\ front' = IF CheckCookieToken(front) THEN Handle(front, "state")
              ELSE Reply(front, 500)
  /\ UNCHANGED besideFront

\* GET /eshealth.json.
EsHealthRoute ==
  /\ front.pc = "route" /\ front.url = EsHealth
  /\ front' = Handle(front, "eshealth")
  /\ UNCHANGED besideFront

\* No route matches.
NoRoute ==
  /\ front.pc = "route" /\ front.url \notin Routed
  /\ front' = Reply(front, 404)
  /\ UNCHANGED besideFront

\* The response is sent; the next request may arrive.
FrontDone ==
  /\ front.pc = "done"
  /\ front' = [NoFront EXCEPT !.mode = front.mode, !.base = front.base]
  /\ UNCHANGED besideFront


\* ---------------------------------------------------------- GET /hunt/list
\* The users that list hunts: alice and carol create hunts, u is the user
\* POST /hunt/:id/users adds, admin has createEnabled.
Listers == {"alice", "carol", "u", "admin"}
Creators == {"alice", "carol"}
CreateEnabled(user) == user = "admin"

NoListing == [sent |-> FALSE, user |-> "none", data |-> << >>, runningJob |-> << >>]

\* One hunt of the response: hit._source with id = hit._id (0 stands for
\* the blanked id '').  orig keeps the document as stored.
Hit(h) == [orig |-> store[h], id |-> h, userId |-> store[h].userId,
           search |-> store[h].search, searchType |-> store[h].searchType,
           query |-> store[h].query]

\* Lines 4408-4415.
Redact(user, hit) ==
  IF ~CreateEnabled(user) /\ user # hit.orig.userId /\ user \notin hit.orig.users
  THEN [hit EXCEPT !.search = "", !.searchType = "", !.id = 0, !.userId = "",
                   !.query = "deleted"]
  ELSE hit

\* The loop of lines 4393-4417 over the hits from position i on, sorted by
\* creation: acc is <<results.results, runningJob>>.
RECURSIVE ListLoop(_, _, _, _)
ListLoop(user, hits, i, acc) ==
  IF i > Len(hits) THEN acc
  ELSE LET hunt == Hit(hits[i]) IN
       IF runningHuntJob # "undefined" /\ hunt.orig.status = "running"
       THEN ListLoop(user, hits, i + 1, <<acc[1], <<hunt>>>>)
       ELSE ListLoop(user, hits, i + 1, <<Append(acc[1], Redact(user, hunt)), acc[2]>>)

RECURSIVE IdsFrom(_, _)
IdsFrom(h, wanted) ==
  IF h > MaxHunts THEN << >>
  ELSE (IF store[h].status \in wanted THEN <<h>> ELSE << >>) \o IdsFrom(h + 1, wanted)

\* GET /hunt/list: the callback of Db.searchHunt and Db.numberOfHunts.
\* history selects the finished hunts, otherwise the queued, paused and
\* running ones.
ListHunts ==
  /\ ~listing.sent
  /\ \E user \in Listers, history \in BOOLEAN :
       LET wanted == IF history THEN {"finished"} ELSE {"queued", "paused", "running"}
           r == ListLoop(user, IdsFrom(1, wanted), 1, << << >>, << >> >>)
       IN listing' = [sent |-> TRUE, user |-> user, data |-> r[1], runningJob |-> r[2]]
  /\ UNCHANGED besideListing

\* res.send(r).
ListSent ==
  /\ listing.sent
  /\ listing' = NoListing
  /\ UNCHANGED besideListing


\* ------------------------------------------------------------ cron queries
\* processCronQuery processes at most 24 hours at a time.
SliceSeconds == 24 * 60 * 60
\* An alert of a cron query is due ten minutes after the last one.
AlertSeconds == 600

CronIds == 1..MaxCronQueries
CronPasses == 1..MaxCronPasses
\* Math.floor(Date.now() / 1000) at start-up, and the endTime of a pass
\* that starts then.
Clock0 == 3 * SliceSeconds
EndTime0 == Clock0 - CronTimeout

\* The timestamps (seconds) of the sessions of the index; every cron query
\* matches every session.
CronStamps == {EndTime0 - SliceSeconds - 1, EndTime0 - 1, EndTime0 + 30}

\* A document of the queries index.  lastNotified = 0 and
\* lastNotifiedCount = 0 stand for fields the document does not have;
\* creator is what getUserCacheIncAnon finds for cq.creator, compiles
\* whether molochparser parses cq.query and the user's forced expression.
NoCronQuery == [exists |-> FALSE, enabled |-> FALSE, lpValue |-> 0, lastRun |-> 0,
                count |-> 0, notifier |-> FALSE, lastNotified |-> 0,
                lastNotifiedCount |-> 0, action |-> "tag", creator |-> "ok",
                compiles |-> TRUE]

\* One invocation of processCronQueries that got past the cronRunning test:
\* snap is queries of line 5193, turn and iter record the queries that had
\* their slice in this iteration of the outer doWhilst and the number of the
\* iteration, acted the sessions the action was dispatched for in this tick.
NoPass == [pc |-> "idle", snap |-> [q \in CronIds |-> NoCronQuery], endTime |-> 0,
           todo |-> << >>, repeat |-> FALSE, qid |-> 0, single |-> 0, count |-> 0,
           hits |-> {}, more |-> FALSE, acted |-> {}, turn |-> {}, iter |-> 0]

NoAlert == [fired |-> FALSE, at |-> 0, total |-> 0, reported |-> 0]

NoCron == [cronRunning |-> FALSE, queries |-> [q \in CronIds |-> NoCronQuery],
           pass |-> [p \in CronPasses |-> NoPass], inflight |-> {},
           creating |-> 0, lastEnd |-> [q \in CronIds |-> 0],
           lastAlert |-> [q \in CronIds |-> NoAlert],
           clock |-> Clock0, steps |-> 0, faults |-> 0]

\* Object.keys(queries).
RECURSIVE Keys(_, _)
Keys(docs, q) ==
  IF q > MaxCronQueries THEN << >>
  ELSE (IF docs[q].exists THEN <<q>> ELSE << >>) \o Keys(docs, q + 1)

\* The Db.search of the doWhilst body, line 5187.
LoadQueries(pass) == [pass EXCEPT !.pc = "load", !.repeat = FALSE]

\* processCronQueries, lines 5174-5187.
ProcessCronQueries(c) ==
  IF c.cronRunning THEN c
  ELSE LET p == CHOOSE i \in CronPasses : c.pass[i].pc = "idle"
       IN [c EXCEPT !.cronRunning = TRUE, !.pass[p] = LoadQueries(NoPass)]

FreePass(c) == c.cronRunning \/ \E p \in CronPasses : c.pass[p].pc = "idle"

\* processCronQueries called by the interval timer, the start-up timer or
\* GET /processCronQueries.
CronTick ==
  /\ FreePass(cron)
  /\ cron' = ProcessCronQueries(cron)
  /\ UNCHANGED besideCron

\* The callback of Db.search('queries'), lines 5193-5202.
CronLoaded(p) ==
  /\ cron.pass[p].pc = "load"
  /\ cron' = [cron EXCEPT !.pass[p] =
                [@ EXCEPT !.pc = "each", !.snap = cron.queries,
                          !.endTime = cron.clock - CronTimeout,
                          !.todo = Keys(cron.queries, 1),
                          !.turn = {}, !.iter = @ + 1]]
  /\ UNCHANGED besideCron

\* The same callback with an error, lines 5188-5192: cronRunning is reset
\* and the final callback of doWhilst is left to setImmediate.
CronLoadFail(p) ==
  /\ cron.pass[p].pc = "load"
  /\ cron.faults > 0
  /\ cron' = [cron EXCEPT !.cronRunning = FALSE, !.faults = @ - 1,
                          !.pass[p] = [@ EXCEPT !.pc = "failing"]]
  /\ UNCHANGED besideCron

\* The final callback of doWhilst after the error, lines 5323-5328.
CronFailEnd(p) ==
  /\ cron.pass[p].pc = "failing"
  /\ cron' = [cron EXCEPT !.cronRunning = FALSE, !.pass[p] = NoPass]
  /\ UNCHANGED besideCron

\* if (!cq.enabled || endTime < cq.lpValue) return forQueriesCb()
Skipped(cq, endTime) == ~cq.enabled \/ endTime < cq.lpValue

\* Lines 5218-5229 and 5254-5270: the creator is missing or disabled, or
\* an expression does not compile: forQueriesCb() without a search.
GivenUp(cq) == cq.creator # "ok" \/ ~cq.compiles

\* singleEndTime = Math.min(endTime, cq.lpValue + 24 * 60 * 60)
SingleEndTime(cq, endTime) == Min(endTime, cq.lpValue + SliceSeconds)

\* The sessions with gte: cq.lpValue * 1000, lt: singleEndTime * 1000.
Window(from, to) == {t \in CronStamps : from <= t /\ t < to}

\* The iteratee if a query that is still behind kept its place at the head
\* of the series instead of leaving the next slice to the next iteration.
CronEachGreedy(p) ==
  /\ cron.pass[p].pc = "each" /\ cron.pass[p].todo # << >>
  /\ LET pass == cron.pass[p]
         qid == Head(pass.todo)
         cq == [pass.snap[qid] EXCEPT
                  !.lpValue = IF qid \in pass.turn THEN cron.queries[qid].lpValue ELSE @]
         single == SingleEndTime(cq, pass.endTime)
     IN cron' = [cron EXCEPT !.pass[p] =
                   IF Skipped(cq, pass.endTime) \/ GivenUp(cq)
                   THEN [pass EXCEPT !.todo = Tail(@)]
                   ELSE [pass EXCEPT !.todo = IF single # pass.endTime THEN @ ELSE Tail(@),
                                     !.snap[qid] = cq,
                                     !.pc = "search", !.qid = qid,
                                     !.single = single,
                                     !.count = 0, !.acted = {}, !.more = FALSE,
                                     !.turn = @ \cup {qid}]]
  /\ UNCHANGED besideCron

\* The iteratee of async.eachSeries, lines 5202-5276, up to the Db.search of
\* processCronQuery (5100-5109).
CronEach(p) ==
  /\ cron.pass[p].pc = "each" /\ cron.pass[p].todo # << >>
  /\ LET pass == cron.pass[p]
         qid == Head(pass.todo)
         cq == pass.snap[qid]
     IN cron' = [cron EXCEPT !.pass[p] =
                   IF Skipped(cq, pass.endTime) \/ GivenUp(cq)
                   THEN [pass EXCEPT !.todo = Tail(@)]
                   ELSE [pass EXCEPT !.todo = Tail(@), !.pc = "search", !.qid = qid,
                                     !.single = SingleEndTime(cq, pass.endTime),
                                     !.count = 0, !.acted = {}, !.more = FALSE,
                                     !.turn = @ \cup {qid}]]
  /\ UNCHANGED besideCron

\* getMoreUntilDone without error, lines 5137-5162: a page of hits (the
\* whole window at first, fewer than 1000 sessions, and nothing from the
\* scroll after it); the action starts.
CronPage(p) ==
  /\ cron.pass[p].pc = "search"
  /\ LET pass == cron.pass[p] IN
     cron' = [cron EXCEPT !.pass[p] =
                [pass EXCEPT !.pc = "action",
                             !.hits = IF pass.more THEN {}
                                      ELSE Window(pass.snap[pass.qid].lpValue, pass.single)]]
  /\ UNCHANGED besideCron

\* The callback of lines 5276-5306 up to Db.update or issueAlert:
\* cb(count, singleEndTime).
Document(pass, now) ==
  [lpValue |-> pass.single, lastRun |-> now,
   count |-> pass.snap[pass.qid].count + pass.count,
   lastNotified |-> 0, lastNotifiedCount |-> 0]

\* Db.update('queries', 'query', qid, document): the fields of the document
\* replace those of the stored query.
Update(c, qid, document) ==
  IF ~c.queries[qid].exists THEN c
  ELSE [c EXCEPT !.queries[qid].lpValue = document.lpValue,
                 !.queries[qid].lastRun = document.lastRun,
                 !.queries[qid].count = document.count,
                 !.lastEnd[qid] = document.lpValue]

\* continueProcess, lines 5289-5296, up to the callback of Db.update.
CronContinue(c, p) ==
  [Update(c, c.pass[p].qid, Document(c.pass[p], c.clock)) EXCEPT !.pass[p].pc = "update"]

\* Lines 5299-5300.
AlertDue(cq, stored, document, count, now) ==
  /\ cq.notifier
  /\ count # 0
  /\ stored.count # document.count
  /\ (cq.lastNotified = 0 \/ now - cq.lastNotified >= AlertSeconds)

\* Line 5301.
NewMatchCount(document) ==
  IF document.lastNotifiedCount # 0 THEN document.count - document.lastNotifiedCount
  ELSE document.count

\* The callback of processCronQuery, lines 5276-5306.
CronQueryDone(c, p) ==
  LET pass == c.pass[p]
      cq == pass.snap[pass.qid]
      document == Document(pass, c.clock)
  IN IF AlertDue(cq, pass.snap[pass.qid], document, pass.count, c.clock)
     THEN [c EXCEPT !.pass[p].pc = "alert",
                    !.lastAlert[pass.qid] =
                       [fired |-> TRUE, at |-> c.clock, total |-> document.count,
                        reported |-> NewMatchCount(document)]]
     ELSE CronContinue(c, p)

\* doNext, lines 5110-5130: the action on the page is done.
CronActed(p) ==
  /\ cron.pass[p].pc = "action"
  /\ LET pass == cron.pass[p]
         n == Cardinality(pass.hits)
         c == [cron EXCEPT !.pass[p].count = @ + n,
                           !.pass[p].acted = @ \cup pass.hits,
                           !.pass[p].hits = {}]
     IN cron' = IF n = 0 THEN CronQueryDone(c, p)
                ELSE [c EXCEPT !.inflight = @ \cup {[qid |-> pass.qid, count |-> pass.count + n]},
                               !.pass[p].pc = "search", !.pass[p].more = TRUE]
  /\ UNCHANGED besideCron

\* sendSessionsListQL for the page of a forward query, lines 1172-1243: a
\* session of this node goes through sendSessionQueue, and sendSessionWorker
\* returns without calling cb when processSessionId hands it no session
\* (lines 1101-1104); sent never reaches the number of sessions of the
\* node, so nextCb, nextQLCb and doNext are never called.
CronSessionLost(p) ==
  /\ cron.pass[p].pc = "action"
  /\ cron.pass[p].snap[cron.pass[p].qid].action = "forward"
  /\ cron.pass[p].hits # {}
  /\ cron' = [cron EXCEPT !.pass[p].pc = "lost"]
  /\ UNCHANGED besideCron

\* getMoreUntilDone with err or result.error, lines 5132-5135, and the
\* final callback of lines 5169-5171.
CronSearchFail(p) ==
  /\ cron.pass[p].pc = "search"
  /\ cron.faults > 0
  /\ cron' = CronQueryDone([cron EXCEPT !.faults = @ - 1], p)
  /\ UNCHANGED besideCron

\* The Db.update of line 5119, whose callback is empty, reaches the index.
CountLands ==
  /\ \E m \in cron.inflight :
       cron' = [cron EXCEPT !.inflight = @ \ {m},
                            !.queries[m.qid].count =
                               IF cron.queries[m.qid].exists THEN m.count ELSE @]
  /\ UNCHANGED besideCron

\* issueAlert calls continueProcess.
CronAlerted(p) ==
  /\ cron.pass[p].pc = "alert"
  /\ cron' = CronContinue(cron, p)
  /\ UNCHANGED besideCron

\* The callback of Db.update, lines 5290-5295.
CronUpdated(p) ==
  /\ cron.pass[p].pc = "update"
  /\ cron' = [cron EXCEPT !.pass[p] =
                [@ EXCEPT !.pc = "each", !.qid = 0,
                          !.repeat = IF cron.pass[p].single # cron.pass[p].endTime
                                     THEN TRUE ELSE @]]
  /\ UNCHANGED besideCron

\* The end of eachSeries, lines 5311-5328: another pass if a query is still
\* behind, else cronRunning is released.
CronPassEnd(p) ==
  /\ cron.pass[p].pc = "each" /\ cron.pass[p].todo = << >>
  /\ cron' = IF cron.pass[p].repeat
             THEN [cron EXCEPT !.pass[p] = LoadQueries(@)]
             ELSE [cron EXCEPT !.pass[p] = NoPass, !.cronRunning = FALSE]
  /\ UNCHANGED besideCron

\* The since of POST /user/cron/create: -1 is all the sessions, else the
\* number of hours back.
Sinces == {0 - 1, 0, 1, 48}

\* Lines 2912-2924; minTimestamp is the smallest timestamp of the sessions.
CreateLpValue(since, now) ==
  LET minTimestamp == CHOOSE t \in CronStamps : \A u \in CronStamps : t <= u
  IN IF since = 0 - 1 THEN minTimestamp
     ELSE IF minTimestamp > now - 60 * 60 * since THEN minTimestamp
     ELSE now - 60 * 60 * since

\* POST /user/cron/create: the callback of Db.getMinValue, lines 2912-2928.
CronCreate ==
  /\ cron.creating = 0
  /\ \E qid \in CronIds, since \in Sinces, notifier \in BOOLEAN :
       /\ ~cron.queries[qid].exists
       /\ \A q \in 1..(qid - 1) : cron.queries[q].exists
       /\ LET lp == CreateLpValue(since, cron.clock) IN
          cron' = [cron EXCEPT !.creating = qid,
                     !.queries[qid] = [NoCronQuery EXCEPT
                                         !.exists = TRUE, !.enabled = TRUE,
                                         !.lpValue = lp, !.lastRun = lp,
                                         !.notifier = notifier]]
  /\ UNCHANGED besideCron

\* The callback of Db.indexNow, lines 2928-2941.
CronCreated ==
  /\ cron.creating # 0
  /\ FreePass(cron)
  /\ cron' = [ProcessCronQueries(cron) EXCEPT !.creating = 0]
  /\ UNCHANGED besideCron

\* Time passes.
ClockStep ==
  /\ cron.steps > 0
  /\ \E d \in {60, SliceSeconds} :
       cron' = [cron EXCEPT !.clock = @ + d, !.steps = @ - 1]
  /\ UNCHANGED besideCron

\* ------------------------------------------------------------ expiry
\* expireDevice keeps at least 10 files (line 2114) and asks the files index
\* for 200 files at most (line 2092).
KeepFiles == 10
ExpirePage == 200

FileIds == 1..MaxFiles
ExpiryPasses == 1..MaxExpiryPasses

\* A file of the device's directories: its row of the files index (with
\* first = the id, so sort first:asc is the order of the ids), the locked
\* field of the row, and the file on disk.
NoFile == [row |-> FALSE, locked |-> FALSE, disk |-> FALSE]

\* One call of expireDevice: data.hits.hits still to visit, data.hits.total.
NoExpiryPass == [pc |-> "idle", hits |-> << >>, total |-> 0]

NoExpiry == [files |-> [f \in FileIds |-> NoFile],
             pass |-> [p \in ExpiryPasses |-> NoExpiryPass],
             locks |-> 0]

\* The rows the query of lines 2090-2100 matches: must_not locked = 1.
Candidates(files) == {f \in FileIds : files[f].row /\ ~files[f].locked}

\* sort: first asc.
RECURSIVE Ascending(_, _)
Ascending(S, f) ==
  IF f > MaxFiles THEN << >>
  ELSE (IF f \in S THEN <<f>> ELSE << >>) \o Ascending(S, f + 1)

\* size: 200.
Page(hits) == SubSeq(hits, 1, Min(Len(hits), ExpirePage))

\* expireCheckAll of the 60 s timer found the device short of space:
\* expireDevice sends its query, lines 2089-2113.
ExpireDevice(p) ==
  /\ expiry.pass[p].pc = "idle"
  /\ expiry' = [expiry EXCEPT !.pass[p].pc = "search"]
  /\ UNCHANGED besideExpiry

\* The callback of Db.search, lines 2113-2117.
ExpireSearched(p) ==
  /\ expiry.pass[p].pc = "search"
  /\ LET found == Candidates(expiry.files)
         total == Cardinality(found)
     IN expiry' = [expiry EXCEPT !.pass[p] =
                     IF total <= KeepFiles THEN NoExpiryPass
                     ELSE [pc |-> "each", hits |-> Page(Ascending(found, 1)),
                           total |-> total]]
  /\ UNCHANGED besideExpiry

\* The same callback with err or data.error, line 2114.
ExpireSearchFail(p) ==
  /\ expiry.pass[p].pc = "search"
  /\ expiry' = [expiry EXCEPT !.pass[p] = NoExpiryPass]
  /\ UNCHANGED besideExpiry

\* The iteratee of forEachSeries, lines 2117-2139: statVFS throws for a
\* file that is not on disk, else the device is short of space or not.
ExpireItem(p) ==
  /\ expiry.pass[p].pc = "each"
  /\ LET pass == expiry.pass[p] IN
     \E short \in BOOLEAN :
       expiry' = [expiry EXCEPT !.pass[p] =
                       IF pass.hits = << >> \/ pass.total <= KeepFiles THEN NoExpiryPass
                       ELSE IF ~expiry.files[Head(pass.hits)].disk \/ short
                       THEN [pass EXCEPT !.total = @ - 1, !.pc = "delete"]
                       ELSE NoExpiryPass]
  /\ UNCHANGED besideExpiry

\* Db.deleteFile(node, id, name, cb): the file is unlinked and its row is
\* deleted from the files index.
DeleteFile(files, f) == [files EXCEPT ![f] = NoFile]

\* The callback of Db.deleteFile, line 2136.
ExpireDeleted(p) ==
  /\ expiry.pass[p].pc = "delete"
  /\ LET pass == expiry.pass[p] IN
     expiry' = [expiry EXCEPT !.files = DeleteFile(@, Head(pass.hits)),
                              !.pass[p] = [pass EXCEPT !.pc = "each", !.hits = Tail(@)]]
  /\ UNCHANGED besideExpiry

\* A file is locked (locked: 1 is written to its row) from outside the
\* viewer.
LockFile ==
  /\ expiry.locks > 0
  /\ \E f \in FileIds :
       /\ expiry.files[f].row /\ ~expiry.files[f].locked
       /\ expiry' = [expiry EXCEPT !.files[f].locked = TRUE, !.locks = @ - 1]
  /\ UNCHANGED besideExpiry

\* ------------------------------------------------------------- scrub
\* async.eachLimit(fields.packetPos, 10, ...), line 2001, and the 16 bytes
\* of a packet's record header, line 1972.
ScrubLimit == 10
RecordHeader == 16

Packets == 1..MaxPackets
FileNums == 1..MaxPcapFiles

\* pcapScrub.scrubbingBuffers, lines 1957-1965: zeros, ones, and the string
\* 'Scrubbed! Hoot! ' written again and again; k is the index of a byte.
HootChars == <<"S", "c", "r", "u", "b", "b", "e", "d", "!", " ",
               "H", "o", "o", "t", "!", " ">>
ScrubbingBuffers(b, k) ==
  CASE b = 1 -> "00" [] b = 2 -> "01"
    [] OTHER -> HootChars[((k - 1) % Len(HootChars)) + 1]

\* The packet at positive offset i of its file, as captured: the record
\* header and i bytes of payload.
Captured(i) == [header |-> "rec", payload |-> [k \in 1..i |-> "xx"]]
PacketLength(packet) == RecordHeader + Len(packet.payload)

\* pcap.scrubPacket(obj, pos, buffer, entire).
ScrubPacket(packet, b, entire) ==
  [header |-> IF entire THEN ScrubbingBuffers(b, 1) ELSE packet.header,
   payload |-> [k \in 1..Len(packet.payload) |-> ScrubbingBuffers(b, k)]]

\* The callback of pcap.readPacket in processFile, lines 1969-1987, for a
\* packet that was read and decodes.
ProcessFile(packet, entire) ==
  IF PacketLength(packet) > RecordHeader
  THEN ScrubPacket(ScrubPacket(ScrubPacket(packet, 1, entire), 2, entire), 3, entire)
  ELSE packet

\* fields.packetPos of a session whose packet i is in file fileOf[i]: the
\* negated file number, then the offsets of the packets in that file.
RECURSIVE PacketPos(_, _)
PacketPos(fileOf, i) ==
  IF i > MaxPackets THEN << >>
  ELSE (IF i = 1 \/ fileOf[i] # fileOf[i - 1] THEN <<0 - fileOf[i], i>> ELSE <<i>>)
         \o PacketPos(fileOf, i + 1)

NoSession == [exists |-> FALSE, scrubby |-> "", scrubat |-> 0, packetPos |-> << >>]

\* One call of pcapScrub: next is the index eachLimit will hand out next,
\* done and finalCalled are eachLimit's own flags.
NoRun == [pc |-> "idle", what |-> "", next |-> 1, fileNum |-> 0,
          done |-> FALSE, finalCalled |-> FALSE, pcapErr |-> FALSE]

\* passes is the buffers written over each packet by the current run,
\* first the packets as the first run left them.
NoScrub == [session |-> NoSession,
            bytes |-> [i \in Packets |-> Captured(i)],
            passes |-> [i \in Packets |-> << >>],
            files |-> [f \in FileNums |-> [indexed |-> FALSE, open |-> FALSE]],
            run |-> NoRun, inflight |-> {},
            history |-> << >>, first |-> [i \in Packets |-> Captured(i)],
            faults |-> 0]

\* eachLimit's replenish with the iteratee of lines 2001-2030 up to its
\* first asynchronous call.
RECURSIVE Launch(_)
Launch(c) ==
  IF c.run.done \/ c.run.next > Len(c.session.packetPos)
     \/ Cardinality(c.inflight) >= ScrubLimit
  THEN c
  ELSE LET pos == c.session.packetPos[c.run.next] IN
       IF pos < 0
       THEN Launch([c EXCEPT !.run.next = @ + 1, !.run.fileNum = 0 - pos])
       ELSE Launch([c EXCEPT !.run.next = @ + 1,
                      !.inflight = @ \cup
                         {[pos |-> pos, fileNum |-> c.run.fileNum,
                           phase |-> IF c.files[c.run.fileNum].open
                                     THEN "read" ELSE "lookup"]}])

\* The final callback of eachLimit, lines 2031-2047, up to its Db call; it
\* is called once.
Final(c, pcapErr) ==
  IF c.run.finalCalled THEN c
  ELSE [c EXCEPT !.run.finalCalled = TRUE, !.run.done = TRUE,
                 !.run.pcapErr = pcapErr,
                 !.run.pc = IF c.run.what = "all" THEN "delete" ELSE "update"]

\* eachLimit after an iteratee has called back without error, or at its
\* start: more items are handed out, and the final callback is called when
\* none is left and none is running.
Replenished(c) ==
  LET l == Launch(c) IN
  IF l.inflight = {} /\ (l.run.done \/ l.run.next > Len(l.session.packetPos))
  THEN Final(l, FALSE) ELSE l

\* nextCb(err) of an item.
NextCb(c, item, err) ==
  LET rest == [c EXCEPT !.inflight = @ \ {item}] IN
  IF err THEN Final([rest EXCEPT !.run.done = TRUE], TRUE)
  ELSE Replenished(rest)

Whats == {"spi", "pcap", "all"}

\* pcapScrub, lines 1956-1991: Db.getSession is sent.
PcapScrub ==
  /\ scrub.run.pc = "idle" /\ scrub.inflight = {}
  /\ scrub.session.exists
  /\ Len(scrub.history) < MaxScrubs
  /\ \E what \in Whats :
       scrub' = [scrub EXCEPT !.run = [NoRun EXCEPT !.pc = "get", !.what = what],
                              !.passes = [i \in Packets |-> << >>],
                              !.first = IF scrub.history = << >> THEN @ ELSE scrub.bytes]
  /\ UNCHANGED besideScrub

\* The callback of Db.getSession, lines 1991-2001.
GotSession ==
  /\ scrub.run.pc = "get"
  /\ scrub' = IF scrub.run.what = "spi"
              THEN [scrub EXCEPT !.run.pc = "delete"]
              ELSE Replenished([scrub EXCEPT !.run.pc = "each"])
  /\ UNCHANGED besideScrub

\* The callback of Db.fileIdToFile, lines 2010-2026: the file is not in the
\* files index, or it is opened for writing.
FileLookedUp ==
  /\ \E item \in scrub.inflight :
       /\ item.phase = "lookup"
       /\ scrub' = IF ~scrub.files[item.fileNum].indexed
                   THEN NextCb(scrub, item, TRUE)
                   ELSE [scrub EXCEPT !.files[item.fileNum].open = TRUE,
                                      !.inflight = (@ \ {item}) \cup
                                                     {[item EXCEPT !.phase = "read"]}]
  /\ UNCHANGED besideScrub

\* The same callback when openReadWrite throws, lines 2018-2024.
OpenFailed ==
  /\ scrub.faults > 0
  /\ \E item \in scrub.inflight :
       /\ item.phase = "lookup" /\ scrub.files[item.fileNum].indexed
       /\ scrub' = NextCb([scrub EXCEPT !.faults = @ - 1], item, TRUE)
  /\ UNCHANGED besideScrub

\* The callback of pcap.readPacket with a packet, lines 1969-1987.
PacketRead ==
  /\ \E item \in scrub.inflight :
       /\ item.phase = "read"
       /\ LET entire == scrub.run.what = "all"
              packet == scrub.bytes[item.pos]
              c == [scrub EXCEPT
                      !.bytes[item.pos] = ProcessFile(packet, entire),
                      !.passes[item.pos] =
                         IF PacketLength(packet) > RecordHeader THEN <<1, 2, 3>> ELSE @]
          IN scrub' = NextCb(c, item, FALSE)
  /\ UNCHANGED besideScrub

\* The same callback without a packet, line 1971: nextCb is not called.
PacketMissing ==
  /\ scrub.faults > 0
  /\ \E item \in scrub.inflight :
       /\ item.phase = "read"
       /\ scrub' = [scrub EXCEPT !.faults = @ - 1,
                                 !.inflight = (@ \ {item}) \cup
                                                {[item EXCEPT !.phase = "stuck"]}]
  /\ UNCHANGED besideScrub

\* The callback of Db.updateSession, lines 2037-2046; the time is the
\* number of the run.
SessionUpdated ==
  /\ scrub.run.pc = "update"
  /\ scrub' = [scrub EXCEPT !.session.scrubby = "alice",
                            !.session.scrubat = Len(scrub.history) + 1,
                            !.history = Append(@, scrub.run.what),
                            !.run.pc = "idle"]
  /\ UNCHANGED besideScrub

\* The callback of Db.deleteDocument, lines 1997-1999 and 2033-2035.
SessionDeleted ==
  /\ scrub.run.pc = "delete"
  /\ scrub' = [scrub EXCEPT !.session.exists = FALSE,
                            !.history = Append(@, scrub.run.what),
                            !.run.pc = "idle"]
  /\ UNCHANGED besideScrub

\* ----------------------------------------------------------- shortcuts
LookupReqs == 1..MaxLookupReqs

\* req.body.var.name as posted, a string of characters.
RawNames == {<<"a">>, <<"a", "!">>, <<"b">>}

\* req.body.var.name.replace(/[^-a-zA-Z0-9_]/g, ''), line 4681.
NameChar(ch) == ch \in {"a", "b", "-", "_"}
Sanitise(raw) == SelectSeq(raw, NameChar)
Names == {Sanitise(raw) : raw \in RawNames}

\* class Mutex, lines 899-903.
NoMutex == [locked |-> FALSE, queue |-> << >>]

\* A POST /lookups request; status 0 is no response yet.
NoLookupReq == [pc |-> "none", name |-> << >>, status |-> 0, text |-> ""]

\* docs is the number of shortcuts of each name in the lookups index.
NoShortcuts == [mutex |-> NoMutex,
                reqs |-> [r \in LookupReqs |-> NoLookupReq],
                docs |-> [n \in Names |-> 0],
                faults |-> 0]

\* Mutex.lock for the promise of request r, lines 905-914, spared.
LockFree(c, r) ==
  [c EXCEPT !.mutex.locked = TRUE, !.reqs[r].pc = "search"]

\* Mutex.lock for the promise of request r, lines 905-914: resolved at once,
\* and Db.searchLookups is sent, or queued.
Lock(c, r) ==
  IF c.mutex.locked
  THEN [c EXCEPT !.mutex.queue = Append(@, r), !.reqs[r].pc = "waiting"]
  ELSE [c EXCEPT !.mutex.locked = TRUE, !.reqs[r].pc = "search"]

\* Mutex.unlock, lines 916-923: the first queued promise is resolved, and
\* its request sends Db.searchLookups.
Unlock(c) ==
  IF Len(c.mutex.queue) > 0
  THEN [c EXCEPT !.mutex.queue = Tail(@), !.reqs[Head(c.mutex.queue)].pc = "search"]
  ELSE [c EXCEPT !.mutex.locked = FALSE]

\* res.send or res.molochError.
Respond(c, r, status, text) ==
  [c EXCEPT !.reqs[r] = [@ EXCEPT !.pc = "done", !.status = status, !.text = text]]

\* POST /lookups, lines 4674-4698: the body lacks a field, the user is not
\* found, or the mutex is asked for.
PostLookup ==
  /\ \E r \in LookupReqs, raw \in RawNames, body \in {"ok", "short", "nouser"} :
       /\ shortcuts.reqs[r].pc = "none"
       /\ \A q \in 1..(r - 1) : shortcuts.reqs[q].pc # "none"
       /\ LET c == [shortcuts EXCEPT !.reqs[r].name = Sanitise(raw)] IN
          shortcuts' = CASE body = "short" -> Respond(c, r, 403, "missing")
                         [] body = "nouser" -> Respond(c, r, 200, "empty")
                         [] OTHER -> Lock(c, r)
  /\ UNCHANGED besideShortcuts

\* The promise of Db.searchLookups is fulfilled, lines 4699-4720: a
\* shortcut of the name exists, or Db.createLookup is sent.
LookupSearched ==
  /\ \E r \in LookupReqs :
       /\ shortcuts.reqs[r].pc = "search"
       /\ shortcuts' = IF shortcuts.docs[shortcuts.reqs[r].name] > 0
                       THEN Respond(Unlock(shortcuts), r, 403, "exists")
                       ELSE [shortcuts EXCEPT !.reqs[r].pc = "create"]
  /\ UNCHANGED besideShortcuts

\* The promise is rejected, lines 4735-4739.
LookupSearchFail ==
  /\ shortcuts.faults > 0
  /\ \E r \in LookupReqs :
       /\ shortcuts.reqs[r].pc = "search"
       /\ shortcuts' = Respond(Unlock([shortcuts EXCEPT !.faults = @ - 1]), r, 500, "search")
  /\ UNCHANGED besideShortcuts

\* Db.createLookup(variable, userId, cb): the shortcut is indexed and can be
\* searched when cb is called.
CreateLookup(c, name) == [c EXCEPT !.docs[name] = @ + 1]

\* The callback of Db.createLookup without error, lines 4726-4733.
LookupCreated ==
  /\ \E r \in LookupReqs :
       /\ shortcuts.reqs[r].pc = "create"
       /\ shortcuts' = Respond(Unlock(CreateLookup(shortcuts, shortcuts.reqs[r].name)),
                               r, 200, "created")
  /\ UNCHANGED besideShortcuts

\* The callback of Db.createLookup with an error, lines 4721-4725.
LookupCreateFail ==
  /\ shortcuts.faults > 0
  /\ \E r \in LookupReqs :
       /\ shortcuts.reqs[r].pc = "create"
       /\ shortcuts' = Respond(Unlock([shortcuts EXCEPT !.faults = @ - 1]), r, 500, "create")
  /\ UNCHANGED besideShortcuts

\* ------------------------------------------------------------ WISE
\* processQuery of wiseService.js for one source and one typeName whose
\* funcName the source implements; the values queried are two ordinary
\* values and one that is the name of a property of every array.
WiseQueries == 1..MaxWiseQueries
WiseValues == {"a.example", "b.example", "length"}

\* src.srcInProgress[type] = [] (addType, lines 838 and 859) is an Array:
\* the names the in operator finds on it before any value is stored.
ArrayNames == {"length"}

NoWiseQuery == [pc |-> "none", value |-> "", calls |-> 0]

\* cache: the value has a fresh result of the source in internals.cache;
\* srcInProgress: the callbacks stored under the value, << >> when the
\* value is not a key; lookups: calls of src[funcName] not yet answered.
NoWise == [cache |-> [v \in WiseValues |-> FALSE],
           srcInProgress |-> [v \in WiseValues |-> << >>],
           lookups |-> [v \in WiseValues |-> 0],
           reqs |-> [q \in WiseQueries |-> NoWiseQuery]]

\* query.value in src.srcInProgress[query.typeName], line 924.
InProgress(w, v) == w.srcInProgress[v] # << >> \/ v \in ArrayNames

\* processQuery, lines 905-930: internals.cache.get is called.
ProcessQuery(q) ==
  /\ wise.reqs[q].pc = "none"
  /\ \E v \in WiseValues :
       wise' = [wise EXCEPT !.reqs[q] = [NoWiseQuery EXCEPT !.pc = "cache", !.value = v]]
  /\ UNCHANGED besideWise

\* The callback of internals.cache.get and the iteratee of async.map for
\* the source, lines 931-955: the cached result is used, or the callback
\* joins the lookup in progress (push on what is stored under the value: a
\* TypeError when that is not an array of callbacks), or the lookup starts.
CacheGot(q) ==
  /\ wise.reqs[q].pc = "cache"
  /\ LET v == wise.reqs[q].value IN
     wise' = IF wise.cache[v]
             THEN [wise EXCEPT !.reqs[q].pc = "done", !.reqs[q].calls = @ + 1]
             ELSE IF InProgress(wise, v)
             THEN IF wise.srcInProgress[v] # << >>
                  THEN [wise EXCEPT !.srcInProgress[v] = Append(@, q),
                                    !.reqs[q].pc = "queued"]
                  ELSE [wise EXCEPT !.reqs[q].pc = "thrown"]
             ELSE [wise EXCEPT !.srcInProgress[v] = <<q>>,
                               !.lookups[v] = @ + 1,
                               !.reqs[q].pc = "queued"]
  /\ UNCHANGED besideWise

\* The callback of src[typeInfo.funcName], lines 932-949: the result is
\* cached unless err, cacheTimeout -1 or no result; the entry is deleted
\* and every stored callback is called.
SourceAnswered(v) ==
  /\ wise.lookups[v] > 0
  /\ \E cached \in BOOLEAN :
       LET waiting == wise.srcInProgress[v] IN
       wise' = [wise EXCEPT
                  !.cache[v] = cached,
                  !.srcInProgress[v] = << >>,
                  !.lookups[v] = @ - 1,
                  !.reqs = [q \in WiseQueries |->
                              IF q \in Range(waiting)
                              THEN [@[q] EXCEPT !.pc = "done",
                                      !.calls = @ + Cardinality({i \in DOMAIN waiting :
                                                                   waiting[i] = q})]
                              ELSE @[q]]]
  /\ UNCHANGED besideWise

SideInit ==
  /\ routing = NoRouting
  /\ front = NoFront
  /\ listing = NoListing
  /\ cron = NoCron
  /\ expiry = NoExpiry
  /\ scrub = NoScrub
  /\ shortcuts = NoShortcuts
  /\ wise = NoWise

\* The hunt engine at start-up, with nothing to do.
HuntIdle ==
  /\ store = [h \in Hunts |-> NoHunt]
  /\ runningHuntJob = "undefined"
  /\ proccessHuntJobsInitialized = FALSE
  /\ huntSearches = 0
  /\ scans = [k \in Scans |-> IdleScan]
  /\ req = NoReq
  /\ fixture = [hunts |-> 0, sessions |-> 0, kinds |-> {"ok"},
                   creators |-> {"alice"}]
  /\ budget = [reqs |-> 0, faults |-> 0]
  /\ searchedBy = [h \in Hunts |-> {}]
  /\ matchedBy = [h \in Hunts |-> {}]
  /\ taggedBy = [h \in Hunts |-> {}]
  /\ userPaused = {}

InitFixture(fx, reqs, faults) ==
  /\ store = [h \in Hunts |-> NoHunt]
  /\ runningHuntJob = "undefined"
  /\ proccessHuntJobsInitialized = FALSE
  /\ huntSearches = 0
  /\ scans = [k \in Scans |-> IdleScan]
  /\ req = NoReq
  /\ fixture = fx
  /\ budget = [reqs |-> reqs, faults |-> faults]
  /\ searchedBy = [h \in Hunts |-> {}]
  /\ matchedBy = [h \in Hunts |-> {}]
  /\ taggedBy = [h \in Hunts |-> {}]
  /\ userPaused = {}
  /\ SideInit

InitWith(hunts, sessions, reqs, faults) ==
  InitFixture([hunts |-> hunts, sessions |-> sessions, kinds |-> {"ok"},
                   creators |-> {"alice"}], reqs, faults)

\* The engine on a healthy cluster: scheduler ticks, POST /hunt and the
\* callbacks of a scan.
Engine ==
  \/ Tick
  \/ HuntListDone
  \/ \E k \in Scans : Prepared(k)
  \/ \E k \in Scans : SessionSearchDone(k)
  \/ \E k \in Scans : ScrollDone(k)
  \/ \E k \in Scans : HitDone(k)
  \/ \E k \in Scans : CheckpointDone(k)
  \/ \E k \in Scans : TimePasses(k)
  \/ \E k \in Scans : SetHuntDone(k)
  \/ PostHunt
  \/ RequestDone

\* No pause, no play, no failure.
InitQuiet == InitWith(MaxHunts, NumSessions, 0, 0)
NextQuiet == Engine
SpecQuiet == InitQuiet /\ [][NextQuiet]_vars

\* Unreachable peers.
InitTransport == InitWith(SoloHunts, NumSessions, 0, 0)
NextTransport ==
  \/ Engine
  \/ \E k \in Scans : HitTransportError(k)
  \/ \E k \in Scans : PauseDone(k)
SpecTransport == InitTransport /\ [][NextTransport]_vars

\* Unreachable peers and failing Elasticsearch or peer calls.
InitFaults == InitWith(SoloHunts, NumSessions, 0, MaxFaults)
NextFaults ==
  \/ NextTransport
  \/ HuntListFail
  \/ \E k \in Scans : PrepareFail(k)
  \/ \E k \in Scans : SessionSearchFail(k)
  \/ \E k \in Scans : HitJsonError(k)
SpecFaults == InitFaults /\ [][NextFaults]_vars

\* Users pausing and resuming hunts.
Init == InitWith(MaxHunts, QueueSessions, MaxRequests, 0)
Next ==
  \/ Engine
  \/ GetHunt({"pause", "play"})
  \/ UpdateHuntStatus
Spec == Init /\ [][Next]_vars

\* Unreachable peers while a user pauses or resumes the hunt.
InitResume == InitWith(SoloHunts, ResumeSessions, ResumeRequests, 0)
NextResume ==
  \/ NextTransport
  \/ GetHunt({"pause", "play"})
  \/ UpdateHuntStatus
SpecResume == InitResume /\ [][NextResume]_vars

\* Hunts whose regex or session expression does not compile.
HuntKinds == {"ok", "badRegex", "badExpression"}
InitUnrunnable ==
  InitFixture([hunts |-> MaxHunts, sessions |-> ResumeSessions, kinds |-> HuntKinds,
               creators |-> {"alice"}], 0, 0)
NextUnrunnable ==
  \/ Engine
  \/ \E k \in Scans : PauseDone(k)
SpecUnrunnable == InitUnrunnable /\ [][NextUnrunnable]_vars

\* A long scan in which every session held by a peer has failed so far: the
\* i-th session of the fixture that is held by a peer.
RemoteId(i) == 4 * (i \div 2) + (i % 2)

FailedSoFar(n) == [i \in 1..n |-> RemoteId(i)]

\* The state of the process in the primary scan of a hunt after the sessions
\* up to the n-th remote one have been handled, all peers unreachable and no
\* checkpoint taken yet: the next iteratees of the page have just started.
MidScan(n) ==
  LET done == RemoteId(n)
      total == RemoteId(FailedSessionsCap) + CapTail
      pageEnd == Min(PageSize * (done \div PageSize) + PageSize, total)
      handled == {s \in 1..done : SessionKind(s) # "remote"}
      hits == {s \in 1..done : SessionKind(s) = "local" /\ Matches(s)}
      doc == [NewHunt(total) EXCEPT !.status = "running"]
      hunt == [doc EXCEPT !.failedSessionIds = FailedSoFar(n),
                          !.matchedSessions = Cardinality(hits)]
      scan == [IdleScan EXCEPT !.pc = "page", !.hid = 1, !.hunt = hunt, !.ss = done,
                               !.from = StartTime,
                               !.queue = [i \in 1..(pageEnd - done) |-> done + i],
                               !.rest = [i \in 1..(total - pageEnd) |-> pageEnd + i],
                               !.pageLen = pageEnd - PageSize * (done \div PageSize),
                               !.failedRpc = Range(FailedSoFar(n))]
  IN Replenish([store |-> [h \in Hunts |-> IF h = 1 THEN doc ELSE NoHunt],
                flag |-> "hunt", init |-> TRUE, searches |-> 0,
                scans |-> [k \in Scans |-> IF k = 1 THEN scan ELSE IdleScan],
                searchedBy |-> [h \in Hunts |-> IF h = 1 THEN handled ELSE {}],
                matchedBy |-> [h \in Hunts |-> IF h = 1 THEN hits ELSE {}],
                taggedBy |-> [h \in Hunts |-> IF h = 1 THEN hits ELSE {}]], 1)

InitCap ==
  \E n \in (FailedSessionsCap - CapWindow)..FailedSessionsCap :
     LET w == MidScan(n) IN
     /\ store = w.store
     /\ runningHuntJob = w.flag
     /\ proccessHuntJobsInitialized = w.init
     /\ huntSearches = w.searches
     /\ scans = w.scans
     /\ searchedBy = w.searchedBy
     /\ matchedBy = w.matchedBy
     /\ taggedBy = w.taggedBy
     /\ req = NoReq
     /\ fixture = [hunts |-> 1, sessions |-> RemoteId(FailedSessionsCap) + CapTail,
                   kinds |-> {"ok"},
                   creators |-> {"alice"}]
     /\ budget = [reqs |-> 0, faults |-> 0]
     /\ userPaused = {}
     /\ SideInit
NextCap ==
  \/ \E k \in Scans : HitDone(k)
  \/ \E k \in Scans : HitTransportError(k)
  \/ \E k \in Scans : ScrollDone(k)
  \/ \E k \in Scans : SetHuntDone(k)
  \/ \E k \in Scans : PauseDone(k)
SpecCap == InitCap /\ [][NextCap]_vars

\* The hunts index found by a process that starts after a crash: the
\* document of the hunt that was being scanned has status running and the
\* progress of its last checkpoint.
Crashed(n) ==
  LET hits == {s \in 1..n : SessionKind(s) = "local" /\ Matches(s)} IN
  [NewHunt(ResumeSessions) EXCEPT !.status = "running",
                                  !.searchedSessions = n,
                                  !.lastPacketTime = IF n = 0 THEN 0 ELSE lastPacket(n),
                                  !.matchedSessions = Cardinality(hits)]

\* A process start after a crash: one hunt is persisted as running, the
\* other one is absent, queued, paused or finished; nothing is in memory.
InitCrash ==
  \E r \in Hunts : \E n \in 0..(ResumeSessions - 1) :
  \E other \in {"absent", "queued", "paused", "finished"} :
     /\ (other = "absent") => (r = 1)
     /\ store = [h \in Hunts |->
                   IF h = r THEN Crashed(n)
                   ELSE IF other = "absent" THEN NoHunt
                   ELSE IF other = "finished"
                   THEN [NewHunt(ResumeSessions) EXCEPT !.status = "finished",
                            !.searchedSessions = ResumeSessions,
                            !.lastPacketTime = lastPacket(ResumeSessions),
                            !.matchedSessions = Cardinality({s \in 1..ResumeSessions :
                                SessionKind(s) = "local" /\ Matches(s)})]
                   ELSE [NewHunt(ResumeSessions) EXCEPT !.status = other]]
     /\ runningHuntJob = "undefined"
     /\ proccessHuntJobsInitialized = FALSE
     /\ huntSearches = 0
     /\ scans = [k \in Scans |-> IdleScan]
     /\ req = NoReq
     /\ fixture = [hunts |-> MaxHunts, sessions |-> ResumeSessions, kinds |-> {"ok"},
                   creators |-> {"alice"}]
     /\ budget = [reqs |-> 0, faults |-> 0]
     /\ searchedBy = [h \in Hunts |-> IF h = r THEN 1..n ELSE {}]
     /\ matchedBy = [h \in Hunts |-> IF h = r
                       THEN {s \in 1..n : SessionKind(s) = "local" /\ Matches(s)} ELSE {}]
     /\ taggedBy = matchedBy
     /\ userPaused = {}
     /\ SideInit
NextCrash ==
  \/ Tick
  \/ HuntListDone
  \/ \E k \in Scans : Prepared(k)
  \/ \E k \in Scans : SessionSearchDone(k)
  \/ \E k \in Scans : ScrollDone(k)
  \/ \E k \in Scans : HitDone(k)
  \/ \E k \in Scans : CheckpointDone(k)
  \/ \E k \in Scans : TimePasses(k)
  \/ \E k \in Scans : SetHuntDone(k)
SpecCrash == InitCrash /\ [][NextCrash]_vars

\* Hunts that exist when the process starts, queued, and are deleted by a
\* user before, while or after the engine scans them; peers may be
\* unreachable.
InitDelete ==
  /\ store = [h \in Hunts |-> NewHunt(ResumeSessions)]
  /\ runningHuntJob = "undefined"
  /\ proccessHuntJobsInitialized = FALSE
  /\ huntSearches = 0
  /\ scans = [k \in Scans |-> IdleScan]
  /\ req = NoReq
  /\ fixture = [hunts |-> MaxHunts, sessions |-> ResumeSessions, kinds |-> {"ok"},
                creators |-> {"alice"}]
  /\ budget = [reqs |-> ResumeRequests, faults |-> 0]
  /\ searchedBy = [h \in Hunts |-> {}]
  /\ matchedBy = [h \in Hunts |-> {}]
  /\ taggedBy = [h \in Hunts |-> {}]
  /\ userPaused = {}
  /\ SideInit
NextDelete ==
  \/ NextCrash
  \/ \E k \in Scans : HitTransportError(k)
  \/ \E k \in Scans : PauseDone(k)
  \/ DeleteHunt
SpecDelete == InitDelete /\ [][NextDelete]_vars

\* Sessions of any nodes, with or without files, dispatched by the hunt
\* scan, scrubList or sendSessionsListQL.
InitRouting ==
  /\ HuntIdle
  /\ \E nodeOf \in [RouteIds -> Nodes] : \E hasFile \in [RouteIds -> BOOLEAN] :
       routing = [NoRouting EXCEPT !.nodeOf = nodeOf, !.hasFile = hasFile]
  /\ front = NoFront
  /\ listing = NoListing
  /\ cron = NoCron
  /\ expiry = NoExpiry
  /\ scrub = NoScrub
  /\ shortcuts = NoShortcuts
  /\ wise = NoWise
NextRouting ==
  \/ RouteStart
  \/ HuntDispatch
  \/ ScrubDispatch
  \/ SendDispatch
SpecRouting == InitRouting /\ [][NextRouting]_vars

\* One request at a time through the authentication chain, in each
\* authentication mode and with each base path.
InitFront ==
  /\ HuntIdle
  /\ routing = NoRouting
  /\ \E mode \in Modes, base \in BasePaths :
       front = [NoFront EXCEPT !.mode = mode, !.base = base]
  /\ listing = NoListing
  /\ cron = NoCron
  /\ expiry = NoExpiry
  /\ scrub = NoScrub
  /\ shortcuts = NoShortcuts
  /\ wise = NoWise
NextFront ==
  \/ Arrive
  \/ PasswordAuth
  \/ PeerUserLookup
  \/ RegressionAuth
  \/ AnonymousAuth
  \/ ReceiveRoute
  \/ AddTagsRoute
  \/ SendRoute
  \/ StateRoute
  \/ EsHealthRoute
  \/ NoRoute
  \/ FrontDone
SpecFront == InitFront /\ [][NextFront]_vars

\* Hunts of two creators, shared with a third user or not, listed by any
\* user while the engine runs them.
InitListing ==
  InitFixture([hunts |-> MaxHunts, sessions |-> QueueSessions, kinds |-> {"ok"},
               creators |-> Creators], ResumeRequests, 0)
NextListing ==
  \/ Engine
  \/ GetHunt({"addUser", "delUser"})
  \/ UpdateHuntUsers
  \/ ListHunts
  \/ ListSent
SpecListing == InitListing /\ [][NextListing]_vars

\* Cron queries one second behind the horizon or more than a day behind,
\* with a notifier or not.
CronFixture(most, notifiers, faults) ==
  /\ HuntIdle
  /\ routing = NoRouting
  /\ front = NoFront
  /\ listing = NoListing
  /\ expiry = NoExpiry
  /\ scrub = NoScrub
  /\ shortcuts = NoShortcuts
  /\ wise = NoWise
  /\ \E n \in 1..most :
     \E lp \in [1..n -> {EndTime0 - 1, EndTime0 - SliceSeconds - 1}] :
     \E notifier \in [1..n -> notifiers] :
       cron = [NoCron EXCEPT
                 !.queries = [q \in CronIds |->
                                IF q <= n
                                THEN [NoCronQuery EXCEPT
                                        !.exists = TRUE, !.enabled = TRUE,
                                        !.lpValue = lp[q], !.lastRun = lp[q],
                                        !.notifier = notifier[q]]
                                ELSE NoCronQuery],
                 !.steps = MaxClockSteps, !.faults = faults]
CronEngine ==
  \/ CronTick
  \/ \E p \in CronPasses : CronLoaded(p)
  \/ \E p \in CronPasses : CronEach(p)
  \/ \E p \in CronPasses : CronPage(p)
  \/ \E p \in CronPasses : CronActed(p)
  \/ CountLands
  \/ \E p \in CronPasses : CronUpdated(p)
  \/ \E p \in CronPasses : CronPassEnd(p)
  \/ ClockStep
InitCron == CronFixture(MaxCronQueries, BOOLEAN, 0)
NextCron ==
  \/ CronEngine
  \/ \E p \in CronPasses : CronAlerted(p)
SpecCron == InitCron /\ [][NextCron]_vars

\* Cron queries are created while the engine runs.
InitCronCreate ==
  /\ HuntIdle
  /\ routing = NoRouting
  /\ front = NoFront
  /\ listing = NoListing
  /\ expiry = NoExpiry
  /\ scrub = NoScrub
  /\ shortcuts = NoShortcuts
  /\ wise = NoWise
  /\ cron = [NoCron EXCEPT !.steps = MaxClockSteps]
NextCronCreate ==
  \/ CronCreate
  \/ CronCreated
  \/ CronEngine
  \/ \E p \in CronPasses : CronAlerted(p)
SpecCronCreate == InitCronCreate /\ [][NextCronCreate]_vars

\* Elasticsearch fails a search; no query has a notifier.
InitCronFaults == CronFixture(SoloQueries, {FALSE}, MaxFaults)
NextCronFaults ==
  \/ CronEngine
  \/ \E p \in CronPasses : CronLoadFail(p)
  \/ \E p \in CronPasses : CronFailEnd(p)
  \/ \E p \in CronPasses : CronSearchFail(p)
SpecCronFaults == InitCronFaults /\ [][NextCronFaults]_vars

\* One cron query that tags or forwards, whose creator exists, is missing
\* or is disabled and whose expression compiles or not; a search of
\* Elasticsearch may fail and a session to forward may not be retrievable.
InitCronForward ==
  /\ HuntIdle
  /\ routing = NoRouting
  /\ front = NoFront
  /\ listing = NoListing
  /\ expiry = NoExpiry
  /\ scrub = NoScrub
  /\ shortcuts = NoShortcuts
  /\ wise = NoWise
  /\ \E lp \in {EndTime0 - 1, EndTime0 - SliceSeconds - 1} :
     \E action \in {"tag", "forward"} :
     \E creator \in {"ok", "missing", "disabled"} :
     \E compiles \in BOOLEAN :
       cron = [NoCron EXCEPT
                 !.queries = [q \in CronIds |->
                                IF q <= SoloQueries
                                THEN [NoCronQuery EXCEPT
                                        !.exists = TRUE, !.enabled = TRUE,
                                        !.lpValue = lp, !.lastRun = lp,
                                        !.action = action, !.creator = creator,
                                        !.compiles = compiles]
                                ELSE NoCronQuery],
                 !.faults = MaxFaults]
CronCallbacks ==
  \/ \E p \in CronPasses : CronLoaded(p)
  \/ \E p \in CronPasses : CronLoadFail(p)
  \/ \E p \in CronPasses : CronFailEnd(p)
  \/ \E p \in CronPasses : CronEach(p)
  \/ \E p \in CronPasses : CronPage(p)
  \/ \E p \in CronPasses : CronSearchFail(p)
  \/ \E p \in CronPasses : CronActed(p)
  \/ \E p \in CronPasses : CronSessionLost(p)
  \/ CountLands
  \/ \E p \in CronPasses : CronUpdated(p)
  \/ \E p \in CronPasses : CronPassEnd(p)
NextCronForward ==
  \/ CronTick
  \/ CronCallbacks
SpecCronForward == InitCronForward /\ [][NextCronForward]_vars

\* The callbacks of a pass run once their I/O has completed.
FairCronForward == SpecCronForward /\ WF_vars(CronCallbacks)

\* A device short of space with 9 to MaxFiles files, one of them locked or
\* none, one of them gone from the disk or none; two timer ticks may overlap.
InitExpiry ==
  /\ HuntIdle
  /\ routing = NoRouting
  /\ front = NoFront
  /\ listing = NoListing
  /\ cron = NoCron
  /\ scrub = NoScrub
  /\ shortcuts = NoShortcuts
  /\ wise = NoWise
  /\ \E n \in (KeepFiles - 1)..MaxFiles :
     \E locked \in {{}} \cup {{f} : f \in 1..n} :
     \E gone \in {{}} \cup {{f} : f \in 1..n} :
       expiry = [NoExpiry EXCEPT
                   !.files = [f \in FileIds |->
                                IF f <= n
                                THEN [row |-> TRUE, locked |-> f \in locked,
                                      disk |-> f \notin gone]
                                ELSE NoFile],
                   !.locks = MaxLocks]
NextExpiry ==
  \/ \E p \in ExpiryPasses : ExpireDevice(p)
  \/ \E p \in ExpiryPasses : ExpireSearched(p)
  \/ \E p \in ExpiryPasses : ExpireSearchFail(p)
  \/ \E p \in ExpiryPasses : ExpireItem(p)
  \/ \E p \in ExpiryPasses : ExpireDeleted(p)
  \/ LockFile
SpecExpiry == InitExpiry /\ [][NextExpiry]_vars

\* A session of MaxPackets packets in one file or two, each file still in
\* the files index or not, scrubbed up to MaxScrubs times, with one failure
\* of openReadWrite or readPacket at most.
InitScrub ==
  /\ HuntIdle
  /\ routing = NoRouting
  /\ front = NoFront
  /\ listing = NoListing
  /\ cron = NoCron
  /\ expiry = NoExpiry
  /\ shortcuts = NoShortcuts
  /\ wise = NoWise
  /\ \E fileOf \in [Packets -> FileNums] :
     \E indexed \in [FileNums -> BOOLEAN] :
     \E faults \in 0..MaxFaults :
       /\ \A i \in Packets : i > 1 => fileOf[i] >= fileOf[i - 1]
       /\ scrub = [NoScrub EXCEPT
                     !.session = [NoSession EXCEPT !.exists = TRUE,
                                                   !.packetPos = PacketPos(fileOf, 1)],
                     !.files = [f \in FileNums |->
                                  [indexed |-> indexed[f], open |-> FALSE]],
                     !.faults = faults]
NextScrub ==
  \/ PcapScrub
  \/ GotSession
  \/ FileLookedUp
  \/ OpenFailed
  \/ PacketRead
  \/ PacketMissing
  \/ SessionUpdated
  \/ SessionDeleted
SpecScrub == InitScrub /\ [][NextScrub]_vars

\* Up to MaxLookupReqs requests for names that are the same once sanitised
\* or not, a shortcut of a name existing already or not, one search or
\* create failing at most.
InitShortcuts ==
  /\ HuntIdle
  /\ routing = NoRouting
  /\ front = NoFront
  /\ listing = NoListing
  /\ cron = NoCron
  /\ expiry = NoExpiry
  /\ scrub = NoScrub
  /\ \E docs \in [Names -> {0, 1}] :
     \E faults \in 0..MaxFaults :
       shortcuts = [NoShortcuts EXCEPT !.docs = docs, !.faults = faults]
  /\ wise = NoWise
NextShortcuts ==
  \/ PostLookup
  \/ LookupSearched
  \/ LookupSearchFail
  \/ LookupCreated
  \/ LookupCreateFail
SpecShortcuts == InitShortcuts /\ [][NextShortcuts]_vars

\* Queries of the capture for values of one type, answered by the cache or
\* by one source.
InitWise ==
  /\ HuntIdle
  /\ routing = NoRouting
  /\ front = NoFront
  /\ listing = NoListing
  /\ cron = NoCron
  /\ expiry = NoExpiry
  /\ scrub = NoScrub
  /\ shortcuts = NoShortcuts
  /\ wise = NoWise
NextWise ==
  \/ \E q \in WiseQueries : ProcessQuery(q)
  \/ \E q \in WiseQueries : CacheGot(q)
  \/ \E v \in WiseValues : SourceAnswered(v)
SpecWise == InitWise /\ [][NextWise]_vars

TypeOK ==
  /\ runningHuntJob \in {"undefined", "true", "hunt"}
  /\ huntSearches \in 0..4
  /\ \A h \in Hunts : store[h].status \in {"absent", "queued", "running", "paused", "finished"}

\* -------------------------------------------------------------- properties
RunningHunts == {h \in Hunts : store[h].status = "running"}

\* C1: at most one hunt document has the persisted status running.
C1_HuntSingleton == Cardinality(RunningHunts) <= 1

\* A scan executes while its main callback chain or one of its workers is
\* still to run.
Executing(sc) ==
  \/ sc.pc \in {"prepare", "search", "page", "scroll", "failed"}
  \/ sc.workers # {}

\* C2: at most one hunt scan is executing in the process.
C2_OneScan == Cardinality({k \in Scans : Executing(scans[k])}) <= 1

Stored == {h \in Hunts : store[h].status # "absent"}

\* C3: the persisted searchedSessions of a hunt never decreases and is at
\* most totalSessions.
C3_SearchedLeTotal ==
  \A h \in Stored : store[h].searchedSessions <= store[h].totalSessions

C3_MonotoneProgress ==
  /\ []C3_SearchedLeTotal
  /\ [][\A h \in Stored : store'[h].searchedSessions >= store[h].searchedSessions]_vars

\* C4: in every persisted hunt document matchedSessions <= searchedSessions.
C4_MatchedLeSearched ==
  \A h \in Stored : store[h].matchedSessions <= store[h].searchedSessions

StatusEdges == {<<"queued", "running">>, <<"running", "finished">>,
                <<"running", "paused">>, <<"paused", "queued">>}

\* C5: the persisted status of a hunt changes only along queued->running,
\* running->finished, running->paused and paused->queued.
C5_StatusEdges ==
  [][\A h \in Stored : store'[h].status # store[h].status
        => <<store[h].status, store'[h].status>> \in StatusEdges]_vars

\* C5, its clause "finished is terminal": once the persisted status of a
\* hunt is finished, no request and no engine step changes it.
C5_FinishedTerminal ==
  [][\A h \in Stored : store[h].status = "finished"
        => store'[h].status = "finished"]_vars

\* C6: a hunt paused through PUT /hunt/:id/pause while running keeps the
\* persisted status paused until a play request queues it; the engine never
\* overwrites it with running or finished.
C6_PauseHonoured ==
  [][\A h \in userPaused : store[h].status = "paused"
        => store'[h].status \in {"paused", "queued"}]_vars

\* C7: the persisted lastPacketTime of an unfinished hunt is at most the
\* lastPacket of every session of its scan that has not been searched yet.
C7_ResumeNeverSkips ==
  \A h \in Stored : store[h].status # "finished" =>
     \A s \in 1..fixture.sessions :
        s \notin searchedBy[h] => store[h].lastPacketTime <= lastPacket(s)

EngineIdle ==
  /\ huntSearches = 0
  /\ req = NoReq
  /\ \A k \in Scans : scans[k] = IdleScan

\* C8: when no scan and no processHuntJobs call is in progress and a hunt
\* is queued, the singleton flag is released, so that the next scheduler
\* tick sets the queued hunt to running.
C8_QueueNotBlocked ==
  (EngineIdle /\ \E h \in Hunts : store[h].status = "queued")
     => runningHuntJob = "undefined"

\* The callbacks of the event loop run once their I/O has completed, and
\* the scheduler's interval timer keeps firing.
Callbacks ==
  \/ Tick
  \/ HuntListDone
  \/ RequestDone
  \/ \E k \in Scans : Prepared(k)
  \/ \E k \in Scans : SessionSearchDone(k)
  \/ \E k \in Scans : ScrollDone(k)
  \/ \E k \in Scans : HitDone(k)
  \/ \E k \in Scans : CheckpointDone(k)
  \/ \E k \in Scans : SetHuntDone(k)

FairQuiet == SpecQuiet /\ WF_vars(Callbacks)

FixtureSessions == 1..fixture.sessions
MatchingSessions == {s \in FixtureSessions : Matches(s) /\ SessionKind(s) # "nofile"}

C9_Result ==
  \A h \in Stored : store[h].status = "finished" =>
     /\ store[h].searchedSessions = fixture.sessions
     /\ store[h].totalSessions = fixture.sessions
     /\ searchedBy[h] = FixtureSessions
     /\ matchedBy[h] = MatchingSessions
     /\ store[h].matchedSessions = Cardinality(matchedBy[h])
     /\ taggedBy[h] = matchedBy[h]

\* C9: with no pause, no crash and no unreachable node a queued hunt ends
\* finished, with searchedSessions = totalSessions = the number of sessions
\* of the scroll, matchedSessions = the number of sessions whose packet
\* search matched, and exactly the matched sessions tagged with the hunt.
C9_HuntCompletes ==
  /\ []C9_Result
  /\ \A h \in Hunts : (store[h].status = "queued") ~> (store[h].status = "finished")

C9_Witness ==
  \E h \in Hunts :
     /\ store[h].status = "finished"
     /\ store[h].searchedSessions = fixture.sessions
     /\ store[h].matchedSessions = Cardinality(MatchingSessions)
     /\ taggedBy[h] = MatchingSessions
     /\ \E s, t \in MatchingSessions : SessionKind(s) = "local" /\ SessionKind(t) = "remote"

NoDup(seq) == \A i, j \in 1..Len(seq) : i # j => seq[i] # seq[j]

\* The hits of a primary scan whose iteratee has been started and whose
\* packet search is no longer awaited.
Settled(sc) ==
  {s \in FixtureSessions :
     lastPacket(s) >= sc.from /\ s \notin Range(sc.queue) /\ s \notin Range(sc.rest)}
    \ {wk.sess : wk \in {x \in sc.workers : x.stage = "req"}}

PrimaryScans ==
  {k \in Scans : ~scans[k].failedPass /\ scans[k].pc \in {"page", "scroll", "setHunt"}}

\* C10: a session whose peer call fails with a transport error in the
\* primary scan is in failedSessionIds, without duplicates; the scan goes on
\* (no iteratee is left without its callback); and no hunt is finished
\* while its failedSessionIds is non-empty.
C10_FailedSessions ==
  /\ \A k \in PrimaryScans :
       /\ \A s \in Settled(scans[k]) :
            s \in searchedBy[scans[k].hid] \/ s \in Range(scans[k].hunt.failedSessionIds)
       /\ scans[k].hung = 0
  /\ \A k \in Scans :
       /\ NoDup(scans[k].hunt.failedSessionIds)
       /\ scans[k].hunt.status = "finished" => scans[k].hunt.failedSessionIds = <<>>
  /\ \A h \in Stored :
       /\ NoDup(store[h].failedSessionIds)
       /\ store[h].status = "finished" => store[h].failedSessionIds = <<>>

\* ---- C11
SeqMinus(seq, set) == SelectSeq(seq, LAMBDA x : x \notin set)

\* A failed-sessions pass whose final callback has run.
PassEnded(sc) ==
  /\ sc.failedPass
  /\ sc.pc = "setHunt" \/ (sc.pc = "ended" /\ sc.pausing > 0)

PassOutcome(sc, doc, initialized) ==
  LET hunt == sc.hunt IN
  /\ sc.pass0 # <<>>
  /\ hunt.failedSessionIds = SeqMinus(sc.pass0, sc.okIds)
  /\ doc = hunt
  /\ sc.okIds = Range(sc.pass0) => hunt.status = "finished"
  /\ (sc.okIds # {} /\ sc.okIds # Range(sc.pass0)) =>
        /\ hunt.status = "running"
        /\ sc.pc = "setHunt"
        /\ ~initialized
  /\ sc.okIds = {} =>
        /\ hunt.status = "paused"
        /\ hunt.errors = Min(sc.err0 + 1, MaxErrors)

\* C11: when a failed-sessions pass ends, the list is the list the pass
\* started with less the sessions that were reached, and the document is
\* persisted: finished if all were reached; still running, with the
\* scheduler un-initialised so that the next processHuntJobs starts another
\* pass, if some were; paused with one more error if none was.
C11_FailedPassOutcome ==
  [][\A k \in Scans :
       (scans[k].pc = "failed" /\ PassEnded(scans'[k]))
          => PassOutcome(scans'[k], store'[scans'[k].hid], proccessHuntJobsInitialized')]_vars

C11_Witness ==
  \E k \in Scans :
     /\ PassEnded(scans[k])
     /\ Len(scans[k].pass0) = 2
     /\ Cardinality(scans[k].okIds) = 1
     /\ scans[k].hunt.status = "running"

\* ---- C12
Unrunnable == {h \in Stored : store[h].compiles # "ok"}

\* C12: a hunt whose regex or session expression does not compile is never
\* finished and none of its sessions is searched; once it is paused with
\* unrunnable = true the engine does not set it to running again.
C12_Unrunnable ==
  /\ [](\A h \in Unrunnable : store[h].status # "finished" /\ searchedBy[h] = {})
  /\ [][\A h \in Unrunnable : (store[h].status = "paused" /\ store[h].unrunnable)
           => (store'[h].status = "paused" /\ store'[h].unrunnable)]_vars

\* ---- C13
\* C13: a session whose peer request failed in a scan (transport error or
\* {matched: false, error}) is in the hunt's failedSessionIds and is not
\* requested again by that scan.
C13_RpcFailureRouted ==
  \A k \in Scans :
     /\ scans[k].failedRpc \subseteq Range(scans[k].hunt.failedSessionIds)
     /\ \A wk \in scans[k].workers : wk.stage = "req" => wk.sess \notin scans[k].failedRpc

\* ---- C14
\* C14: failedSessionIds never holds more than 10,000 entries, in the hunt
\* object of a scan and in the persisted document alike.
C14_FailedSessionsCap ==
  /\ \A k \in Scans : Len(scans[k].hunt.failedSessionIds) <= FailedSessionsCap
  /\ \A h \in Stored : Len(store[h].failedSessionIds) <= FailedSessionsCap

\* ---- C15
RouteDone == routing.op # "none" /\ routing.todo = {}

C16_PeerAuth ==
  (/\ front.mode = "passwordSecret"
   /\ front.auth.present
   /\ front.handler # "none"
   /\ ~IsPublic(front.url))
    => /\ front.auth.path = front.url0
       /\ Abs(front.auth.age) <= PeerSkewMs

\* C17: the handler of /api/sessions/receive and /receiveSession runs only
\* for a request whose peer token was verified, and every other request to
\* these URLs is answered 403.
C17_ReceiveOnlyPeers ==
  /\ front.handler = "receiveSession" => front.peer
  /\ (front.pc = "done" /\ IsReceive(front.url) /\ ~front.peer) => front.status = 403

\* C18: the handler of a mutating endpoint runs only for a request whose
\* x-moloch-cookie token is at most 2,400 s away from now and names the
\* authenticated user.
Mutating == {"addTags", "sendSessions", "state"}
C18_Csrf ==
  front.handler \in Mutating
    => /\ front.token.present
       /\ Abs(front.token.age) <= CookieSkewMs
       /\ front.token.user = front.user

\* C19: in a response of GET /hunt/list every hunt, in data and in
\* runningJob alike, that the user has no access to (not an admin, not its
\* creator, not in its users) has search, searchType, id and userId blanked
\* and query removed.
Listed == Range(listing.data) \cup Range(listing.runningJob)
C19_Redaction ==
  \A hit \in Listed :
    (/\ ~CreateEnabled(listing.user)
     /\ listing.user # hit.orig.userId
     /\ listing.user \notin hit.orig.users)
      => /\ hit.search = "" /\ hit.searchType = ""
         /\ hit.id = 0 /\ hit.userId = ""
         /\ hit.query = "deleted"

\* The step of pass p that issues the Db.update with the tick's lpValue.
Commits(p) == cron.pass[p].pc # "update" /\ cron'.pass[p].pc = "update"

\* C20: every tick of a cron query that writes lpValue writes a value
\* greater than the one it replaces and at most now - cronTimeout.
C20_CronWindow ==
  [][\A p \in CronPasses :
       Commits(p)
         => LET qid == cron.pass[p].qid IN
            /\ cron'.queries[qid].lpValue > cron.queries[qid].lpValue
            /\ cron'.queries[qid].lpValue <= cron'.clock - CronTimeout]_vars

\* C21: lpValue is committed only after the action has been dispatched for
\* every session of the window [lpValue, singleEnd): a window whose search
\* or scroll failed is not committed.
C21_AtLeastOnce ==
  [][\A p \in CronPasses :
       Commits(p)
         => LET pass == cron.pass[p] IN
            Window(pass.snap[pass.qid].lpValue, cron'.queries[pass.qid].lpValue)
              \subseteq cron'.pass[p].acted]_vars

\* The step of pass p that starts the window of a query.
Starts(p) == cron.pass[p].pc = "each" /\ cron'.pass[p].pc = "search"

\* C22: a window is at most 86400 s long and ends at endTime at the latest,
\* and the window of a query starts where the window committed last for
\* that query ended.
C22_Contiguous ==
  [][\A p \in CronPasses :
       Starts(p)
         => LET pass == cron'.pass[p]
                from == pass.snap[pass.qid].lpValue
            IN /\ pass.single <= pass.endTime
               /\ pass.single <= from + SliceSeconds
               /\ cron.lastEnd[pass.qid] # 0 => from = cron.lastEnd[pass.qid]]_vars

\* C23: every stored cron query has lpValue <= now - cronTimeout.
C23_Horizon ==
  \A q \in CronIds :
    cron.queries[q].exists => cron.queries[q].lpValue <= cron.clock - CronTimeout

\* A pass is active from the test of cronRunning to its last write.
Active(p) == cron.pass[p].pc \notin {"idle", "failing"}

\* C24: at most one pass of processCronQueries is active.
C24_CronSingleton == Cardinality({p \in CronPasses : Active(p)}) <= 1

\* C25: the count a tick persists is the count its pass loaded plus the
\* sessions of the tick, and the persisted count never decreases.
C25_CronCount ==
  [][/\ \A q \in CronIds :
          cron.queries[q].exists => cron'.queries[q].count >= cron.queries[q].count
     /\ \A p \in CronPasses :
          Commits(p) => cron'.queries[cron.pass[p].qid].count
                          = cron.pass[p].snap[cron.pass[p].qid].count + cron'.pass[p].count]_vars

\* C26: an alert fires only for a query with a notifier whose count grew in
\* the tick, at least 600 s after the last alert of the query, and reports
\* the count less the count at the last alert.
C26_AlertThrottle ==
  [][\A p \in CronPasses :
       (cron.pass[p].pc # "alert" /\ cron'.pass[p].pc = "alert")
         => LET qid == cron.pass[p].qid
                old == cron.lastAlert[qid]
                new == cron'.lastAlert[qid]
            IN /\ cron.queries[qid].notifier
               /\ cron'.pass[p].count > 0
               /\ old.fired => new.at - old.at >= AlertSeconds
               /\ new.reported = new.total - old.total]_vars

\* The queries a pass does not skip in its current iteration.
Eligible(pass) ==
  {q \in CronIds : pass.snap[q].exists /\ ~Skipped(pass.snap[q], pass.endTime)}

\* C27: in one iteration of a pass a query has at most one slice, of at most
\* 86400 s; a query whose slice ends before endTime sets repeat; and the
\* iteration ends, to be followed by another if repeat is set, only when
\* every eligible query has had its turn, so the next slice of a query comes
\* after the turn of every other one.
C27_Fairness ==
  [][\A p \in CronPasses :
       LET pass == cron.pass[p]
           next == cron'.pass[p]
       IN /\ Starts(p) =>
               /\ next.qid \notin pass.turn
               /\ next.single - pass.snap[next.qid].lpValue <= SliceSeconds
          /\ (pass.pc = "update" /\ next.pc = "each" /\ pass.single < pass.endTime)
               => next.repeat
          /\ (pass.pc = "each" /\ next.pc \in {"load", "idle"}) =>
               /\ Eligible(pass) \subseteq pass.turn
               /\ (pass.repeat <=> next.pc = "load")]_vars

\* A query has its second slice, in the second iteration of a pass, after
\* the other eligible query has had its slice in the first.
C27_Witness ==
  \E p \in CronPasses :
    /\ cron.pass[p].iter = 2 /\ cron.pass[p].pc = "search"
    /\ cron.lastEnd[cron.pass[p].qid] = cron.pass[p].snap[cron.pass[p].qid].lpValue
    /\ \A q \in CronIds : cron.lastEnd[q] # 0

\* The rows of the files index.
Rows(files) == {f \in FileIds : files[f].row}

\* C28: expiry never deletes a file whose row has locked = 1 when it is
\* deleted, and a deletion never leaves fewer than 10 files.
C28_ExpirySafety ==
  [][\A f \in FileIds :
       (expiry.files[f].row /\ ~expiry'.files[f].row) =>
          /\ ~expiry.files[f].locked
          /\ Cardinality(Rows(expiry'.files)) >= KeepFiles]_vars

\* Both scrubs of the session were pcap scrubs, and the second has ended.
ScrubbedTwice ==
  /\ scrub.history = <<"pcap", "pcap">>
  /\ scrub.run.pc = "idle" /\ scrub.inflight = {}

\* C29: after a second pcap scrub of a session every byte of its packets is
\* as the first scrub left it, and scrubby and scrubat are set.
C29_ScrubIdempotent ==
  ScrubbedTwice =>
    /\ scrub.bytes = scrub.first
    /\ scrub.session.scrubby # "" /\ scrub.session.scrubat # 0

\* The step that marks the session scrubbed or deletes it, in a pcap or all
\* scrub.
Marks ==
  /\ scrub.run.what \in {"pcap", "all"}
  /\ \/ scrub'.session.scrubat # scrub.session.scrubat
     \/ scrub.session.exists /\ ~scrub'.session.exists

\* C30: the session is marked scrubbed or deleted only when every packet of
\* packetPos has been overwritten with the three buffers and no packet is
\* still being worked on; so not when a file was not found or not opened.
C30_ScrubOrdering ==
  [][Marks => /\ \A i \in Packets : scrub.passes[i] = <<1, 2, 3>>
              /\ scrub.inflight = {}
              /\ ~scrub.run.pcapErr]_vars

\* The requests holding lookupMutex: between the resolution of lock() and
\* the unlock() of their path.
Holders == {r \in LookupReqs : shortcuts.reqs[r].pc \in {"search", "create"}}

\* C31: there is never more than one shortcut of a name, whatever the
\* number of requests; a request that neither created nor met an error is
\* refused because the name exists; and lookupMutex is locked exactly while
\* one request is between its lock and its response, the queue holding the
\* requests that wait, so every path has released it.
C31_ShortcutCreate ==
  /\ \A n \in Names : shortcuts.docs[n] <= 1
  /\ \A r \in LookupReqs :
       LET q == shortcuts.reqs[r] IN
       q.pc = "done" /\ q.text \notin {"missing", "empty"} =>
         \/ q.status = 200 /\ q.text = "created" /\ shortcuts.docs[q.name] = 1
         \/ q.status = 403 /\ q.text = "exists" /\ shortcuts.docs[q.name] = 1
         \/ q.status = 500
  /\ Cardinality(Holders) = (IF shortcuts.mutex.locked THEN 1 ELSE 0)
  /\ ~shortcuts.mutex.locked => shortcuts.mutex.queue = << >>
  /\ \A r \in LookupReqs :
       shortcuts.reqs[r].pc = "waiting" <=>
         \E k \in 1..Len(shortcuts.mutex.queue) : shortcuts.mutex.queue[k] = r
  /\ \A j, k \in 1..Len(shortcuts.mutex.queue) :
       shortcuts.mutex.queue[j] = shortcuts.mutex.queue[k] => j = k

\* Three requests for one name were answered after waiting for each other:
\* one created the shortcut, two were told that it exists, and the mutex is
\* free.
C31_Witness ==
  /\ \A r \in LookupReqs : shortcuts.reqs[r].pc = "done" /\ shortcuts.reqs[r].name = <<"a">>
  /\ Cardinality({r \in LookupReqs : shortcuts.reqs[r].text = "created"}) = 1
  /\ Cardinality({r \in LookupReqs : shortcuts.reqs[r].text = "exists"}) = MaxLookupReqs - 1
  /\ ~shortcuts.mutex.locked

\* The scans in progress of hunt h.
ScansOf(h) == {k \in Scans : scans[k].pc \notin {"idle", "ended"} /\ scans[k].hid = h}

\* A hunt persisted as running that no scan is processing.
Abandoned(h) == store[h].status = "running" /\ ScansOf(h) = {}

\* C32: a hunt whose document says running when the process starts is the
\* hunt the first processHuntJobs pass starts scanning: a pass never starts
\* the scan of another hunt while a running hunt is without a scan, and a
\* hunt never has two scans.
C32_CrashRecovery ==
  [][/\ \A k \in Scans : \A h \in Hunts :
          (scans[k].pc = "idle" /\ scans'[k].pc = "prepare" /\ Abandoned(h))
             => scans'[k].hid = h
     /\ \A h \in Hunts : Cardinality({k \in Scans : scans'[k].pc \notin {"idle", "ended"}
                                        /\ scans'[k].hid = h}) <= 1]_vars

\* C33: whenever the persisted status of a hunt is finished, its
\* searchedSessions equals its totalSessions and its failedSessionIds is
\* empty.
C33_FinishedComplete ==
  \A h \in Stored : store[h].status = "finished" =>
     /\ store[h].searchedSessions = store[h].totalSessions
     /\ store[h].failedSessionIds = <<>>

\* A step in which a handler writes the hunt document it read earlier.
HandlerWrite == req.stage = "get" /\ store' # store

\* C34: the whole-document write of POST /hunt/:id/users, DELETE
\* /hunt/:id/users/:user, pause or play never lowers the persisted counters
\* of the hunt, the users handlers never change its status, and the write
\* never leaves the hunt with status running while no scan is processing it.
C34_NoStaleWrite ==
  [][HandlerWrite =>
       LET h == req.hid IN
       /\ store'[h].searchedSessions >= store[h].searchedSessions
       /\ store'[h].matchedSessions >= store[h].matchedSessions
       /\ store'[h].lastPacketTime >= store[h].lastPacketTime
       /\ req.kind \in {"addUser", "delUser"} => store'[h].status = store[h].status
       /\ store'[h].status = "running" =>
            \E k \in Scans : scans'[k].pc \notin {"idle", "ended"} /\ scans'[k].hid = h]_vars

\* C35: the users list stored by POST /hunt/:id/users or DELETE
\* /hunt/:id/users/:user is kept by every later write of the engine: a
\* checkpoint or the final write of a scan leaves hunt.users as stored.
C35_UsersKept ==
  [][\A h \in Stored :
       (~HandlerWrite /\ store'[h].status # "absent") => store'[h].users = store[h].users]_vars

\* C36: when the hunt-list search of processHuntJobs fails, the singleton
\* flag runningHuntJob is released by the failing call.
C36_ListFailureReleases ==
  [][(huntSearches' < huntSearches /\ budget'.faults < budget.faults)
        => runningHuntJob' = "undefined"]_vars

\* C37: once the document of a hunt has been deleted, no write of the
\* engine stores it again.
C37_DeletedStaysDeleted ==
  [][\A h \in Hunts : store[h].status = "absent" => store'[h].status = "absent"]_vars

\* A step in which the failed-session pass of scan k ends.
PassEnds(k) == scans[k].pc = "failed" /\ scans'[k].pc # "failed"

C39_CronPassEnds == cron.cronRunning ~> ~cron.cronRunning

\* C40: for every value at most one lookup of the source is in flight; a
\* query that missed the cache waits exactly once in the list stored under
\* its value while the lookup is in flight, and a query that is done had
\* its callback called exactly once; the entry of a value exists exactly
\* while its lookup is in flight.
C40_Coalescing ==
  /\ \A v \in WiseValues :
       /\ wise.lookups[v] <= 1
       /\ (wise.srcInProgress[v] # << >>) <=> (wise.lookups[v] = 1)
  /\ \A q \in WiseQueries :
       LET r == wise.reqs[q] IN
       /\ r.pc \in {"none", "cache", "queued", "done"}
       /\ r.pc = "queued" =>
            Cardinality({i \in DOMAIN wise.srcInProgress[r.value] :
                           wise.srcInProgress[r.value][i] = q}) = 1
       /\ r.pc = "done" => r.calls = 1
       /\ r.pc # "done" => r.calls = 0

====
